---- MODULE Spec2Model ----
(***************************************************************************)
(* HAMMER: contract resolution, execution-plan assembly and the grading    *)
(* pipeline's scoring, modelled from src/src/hammer/plan.py,               *)
(* src/src/hammer/testgen/bindings.py and src/src/hammer/runner/.          *)
(*                                                                         *)
(* Python values are represented as follows.                               *)
(*   Optional[T]      a sequence of length <= 1: <<>> is None, <<x>> is x   *)
(*   Dict[str, Any]   a function whose DOMAIN is the set of keys           *)
(*   Dict[str, Dict]  (group_vars, host_vars) a sequence of records        *)
(*                    [name, vars] with distinct names, in insertion order *)
(*   List[T]          a sequence                                           *)
(*   str              a TLA+ string; ordering comparisons go through the   *)
(*                    code points of the string (Codepoints)               *)
(*   float weights    integers (a unit of weight is left abstract)         *)
(*   templated str    (URLs, output patterns) a sequence of tokens: "{{",   *)
(*                    "}}", " ", a variable name, a digit or a piece of     *)
(*                    other text                                            *)
(***************************************************************************)
EXTENDS Integers, Sequences, FiniteSets, TLC

VARIABLES
    spec,        \* the HammerSpec handed to build_execution_plan / grade_assignment
    pc,          \* position inside build_execution_plan
    plan,        \* the ExecutionPlan under construction
    sel,         \* Optional: the last resolve_node_selector call and its result
    bind_tests,  \* phase -> the list produced by generate_binding_tests
    gen,         \* the test data of a direct call of the behavioral test generators
    phases,      \* grade_assignment: its phases argument (Optional list)
    env,         \* what the external collaborators return in the i-th phase run
    gi,          \* grade_assignment: index of the phase being run
    step,        \* position inside grade_assignment / _run_phase
    cur,         \* the local variables of the running _run_phase
    report,      \* the GradeReport
    runs,        \* the PhaseResult every _run_phase call returned, in call order
    score_call,  \* Optional: the last direct calculate_phase_score call
    rb,          \* Optional: the arguments and local variables of a reboot_nodes call
    fs           \* the grading bundle and results directory, and the external calls made

planVars == <<pc, plan, sel, bind_tests, gen>>
gradeVars == <<phases, env, gi, step, cur, report, runs, score_call, rb, fs>>
vars == <<spec, pc, plan, sel, bind_tests, gen, phases, env, gi, step, cur, report, runs,
          score_call, rb, fs>>

----------------------------------------------------------------------------
(* Bounds of the model *)

MaxEntries == 2      \* entries of one group_vars / host_vars dictionary
MaxBindings == 2     \* binding targets of one variable contract
MaxContracts == 2    \* contracts of one behavioral category
MaxNodes == 2        \* nodes of a topology
MaxNodeGroups == 2   \* length of one node's group list
MaxCount == 1        \* a task count of one host line of the play recap
MaxTests == 2        \* test cases of one pytest report
MaxWeight == 1       \* weight of one test case
MaxMessages == 2     \* failure lines of one converge log
MaxRuns == 2         \* phases requested in one grading

----------------------------------------------------------------------------
(* Python primitives *)

None == <<>>
Some(x) == <<x>>
Get(o) == o[1]
IsNone(o) == Len(o) = 0

Min(a, b) == IF a < b THEN a ELSE b

Range(s) == {s[i] : i \in DOMAIN s}

RECURSIVE SeqsNoDup(_, _)
\* all sequences without repetition, of length <= n, over the set S
SeqsNoDup(S, n) ==
    IF n = 0 THEN {<<>>}
    ELSE LET shorter == SeqsNoDup(S, n - 1)
         IN shorter \cup UNION {{Append(q, x) : x \in S \ Range(q)} : q \in shorter}

RECURSIVE SeqsUpTo(_, _)
\* all sequences of length <= n over the set S
SeqsUpTo(S, n) ==
    IF n = 0 THEN {<<>>}
    ELSE LET shorter == SeqsUpTo(S, n - 1)
         IN shorter \cup UNION {{Append(q, x) : x \in S} : q \in shorter}

\* the code points of the identifiers the model uses
Codepoints == [
    app  |-> <<97, 112, 112>>,
    app1 |-> <<97, 112, 112, 49>>,
    db   |-> <<100, 98>>,
    db1  |-> <<100, 98, 49>>,
    web  |-> <<119, 101, 98>>,
    web1 |-> <<119, 101, 98, 49>>,
    baseline |-> <<98, 97, 115, 101, 108, 105, 110, 101>>,
    mutation |-> <<109, 117, 116, 97, 116, 105, 111, 110>>,
    idempotence |-> <<105, 100, 101, 109, 112, 111, 116, 101, 110, 99, 101>>,
    all  |-> <<97, 108, 108>>,
    zeta |-> <<122, 101, 116, 97>>,
    zeta1 |-> <<122, 101, 116, 97, 49>>]
    @@ ("web-" :> <<119, 101, 98, 45>>)

\* Python's str.__lt__: lexicographic over code points, a proper prefix is smaller
StrLT(a, b) ==
    LET x == Codepoints[a]
        y == Codepoints[b]
    IN \E i \in 1..(Min(Len(x), Len(y)) + 1) :
          /\ \A j \in 1..(i - 1) : x[j] = y[j]
          /\ \/ i > Len(x) /\ i <= Len(y)
             \/ i <= Len(x) /\ i <= Len(y) /\ x[i] < y[i]

RECURSIVE sorted(_)
\* Python's sorted() over a collection of distinct strings
sorted(S) ==
    IF S = {} THEN <<>>
    ELSE LET m == CHOOSE x \in S : \A y \in S : ~StrLT(y, x)
         IN <<m>> \o sorted(S \ {m})

RECURSIVE Flatten(_)
Flatten(ss) == IF ss = <<>> THEN <<>> ELSE Head(ss) \o Flatten(Tail(ss))

\* d.keys() and d[name] for a Dict[str, Dict] kept in insertion order
Keys(d) == {d[i].name : i \in DOMAIN d}
Lookup(d, name) == d[CHOOSE i \in DOMAIN d : d[i].name = name].vars

EmptyDict == [k \in {} |-> 0]

\* OptDict(o): `o if o else {}` for an Optional[Dict[str, Any]]
OptDict(o) == IF IsNone(o) THEN EmptyDict ELSE Get(o)
\* OptList(o): `o or []` for an Optional list (or insertion-ordered dict)
OptList(o) == IF IsNone(o) THEN <<>> ELSE Get(o)

----------------------------------------------------------------------------
(* plan.py: selector resolution *)

PhaseNames == <<"baseline", "mutation", "idempotence">>

\* `x in list` for a Python list
InList(x, l) == \E i \in DOMAIN l : l[i] = x

\* (variant) one entry per occurrence of the group in a node's group list
resolve_node_selector_per_occurrence(selector, topology) ==
    IF ~IsNone(selector.host) THEN <<Get(selector.host)>>
    ELSE IF ~IsNone(selector.group)
         THEN Flatten([n \in DOMAIN topology.nodes |->
                  LET hits == SelectSeq(topology.nodes[n].groups,
                                        LAMBDA g : g = Get(selector.group))
                  IN [i \in DOMAIN hits |-> topology.nodes[n].name]])
         ELSE <<>>

resolve_node_selector(selector, topology) ==
    IF ~IsNone(selector.host) THEN <<Get(selector.host)>>
    ELSE IF ~IsNone(selector.group)
         THEN LET nodes == topology.nodes
                  keep == SelectSeq(nodes, LAMBDA n : InList(Get(selector.group), n.groups))
              IN [i \in DOMAIN keep |-> keep[i].name]
         ELSE <<>>

----------------------------------------------------------------------------
(* plan.py: variable resolution *)

RECURSIVE OverrideLoop(_, _, _, _, _)
\* for name in names: if var in d[name]: value = d[name][var]; source = layer
OverrideLoop(names, d, var, current, layer) ==
    IF names = <<>> THEN current
    ELSE LET gv == Lookup(d, Head(names))
             nxt == IF var \in DOMAIN gv
                    THEN [value |-> gv[var], source |-> layer]
                    ELSE current
         IN OverrideLoop(Tail(names), d, var, nxt, layer)

\* (variant) the override loops iterate in insertion order
OverlayKeyOrderInsertion(d) == [i \in DOMAIN d |-> d[i].name]

\* the iteration order of the group_vars / host_vars override loops
OverlayKeyOrder(d) == sorted(Keys(d))

\* (variant) group_vars applied after host_vars
ResolveVariableGroupLast(var, inventory_vars, group_vars, host_vars, extra_vars) ==
    LET v0 == [value |-> var.defaults.student, source |-> "default"]
        v1 == IF var.name \in DOMAIN inventory_vars
              THEN [value |-> inventory_vars[var.name], source |-> "inventory_vars"]
              ELSE v0
        v2 == OverrideLoop(OverlayKeyOrder(host_vars), host_vars, var.name, v1, "host_vars")
        v3 == OverrideLoop(OverlayKeyOrder(group_vars), group_vars, var.name, v2, "group_vars")
        v4 == IF var.name \in DOMAIN extra_vars
              THEN [value |-> extra_vars[var.name], source |-> "extra_vars"]
              ELSE v3
    IN [name |-> var.name, value |-> v4.value, source |-> v4.source]

ResolveVariable(var, inventory_vars, group_vars, host_vars, extra_vars) ==
    LET v0 == [value |-> var.defaults.student, source |-> "default"]
        v1 == IF var.name \in DOMAIN inventory_vars
              THEN [value |-> inventory_vars[var.name], source |-> "inventory_vars"]
              ELSE v0
        v2 == OverrideLoop(OverlayKeyOrder(group_vars), group_vars, var.name, v1, "group_vars")
        v3 == OverrideLoop(OverlayKeyOrder(host_vars), host_vars, var.name, v2, "host_vars")
        v4 == IF var.name \in DOMAIN extra_vars
              THEN [value |-> extra_vars[var.name], source |-> "extra_vars"]
              ELSE v3
    IN [name |-> var.name, value |-> v4.value, source |-> v4.source]

\* (variant) every execution phase but mutation reads the baseline overlay
spec_phase_name_baseline(phase_name) ==
    IF phase_name = "mutation" THEN "mutation" ELSE "baseline"

\* the overlay phase an execution phase reads (idempotence -> mutation)
spec_phase_name(phase_name) ==
    IF phase_name = "idempotence" THEN "mutation" ELSE phase_name

\* (variant) a phase whose overlay is absent reads the baseline overlay
build_phase_variable_plan_fallback(s, phase_name) ==
    LET overlay_name == spec_phase_name(phase_name)
        \* getattr(spec.phase_overlays, spec_phase_name, None)
        phase_overlay == IF IsNone(s.phase_overlays[overlay_name])
                         THEN s.phase_overlays.baseline
                         ELSE s.phase_overlays[overlay_name]
        inventory_vars == IF IsNone(phase_overlay) THEN EmptyDict
                          ELSE OptDict(Get(phase_overlay).inventory_vars)
        group_vars == IF IsNone(phase_overlay) THEN <<>>
                      ELSE OptList(Get(phase_overlay).group_vars)
        host_vars == IF IsNone(phase_overlay) THEN <<>>
                     ELSE OptList(Get(phase_overlay).host_vars)
        extra_vars == IF IsNone(phase_overlay) THEN EmptyDict
                      ELSE OptDict(Get(phase_overlay).extra_vars)
        vcs == OptList(s.variable_contracts)
        names == {vcs[i].name : i \in DOMAIN vcs}
        \* resolved[var.name] = ...: a later contract of the same name overwrites
        last(n) == vcs[CHOOSE i \in DOMAIN vcs :
                          /\ vcs[i].name = n
                          /\ \A j \in DOMAIN vcs : vcs[j].name = n => j <= i]
    IN [phase |-> phase_name,
        resolved |-> [n \in names |->
                         ResolveVariable(last(n), inventory_vars, group_vars,
                                         host_vars, extra_vars)],
        inventory_vars |-> inventory_vars,
        group_vars |-> group_vars,
        host_vars |-> host_vars,
        extra_vars |-> extra_vars]

build_phase_variable_plan(s, phase_name) ==
    LET overlay_name == spec_phase_name(phase_name)
        \* getattr(spec.phase_overlays, spec_phase_name, None)
        phase_overlay == IF overlay_name \in DOMAIN s.phase_overlays
                         THEN s.phase_overlays[overlay_name] ELSE None
        inventory_vars == IF IsNone(phase_overlay) THEN EmptyDict
                          ELSE OptDict(Get(phase_overlay).inventory_vars)
        group_vars == IF IsNone(phase_overlay) THEN <<>>
                      ELSE OptList(Get(phase_overlay).group_vars)
        host_vars == IF IsNone(phase_overlay) THEN <<>>
                     ELSE OptList(Get(phase_overlay).host_vars)
        extra_vars == IF IsNone(phase_overlay) THEN EmptyDict
                      ELSE OptDict(Get(phase_overlay).extra_vars)
        vcs == OptList(s.variable_contracts)
        names == {vcs[i].name : i \in DOMAIN vcs}
        \* resolved[var.name] = ...: a later contract of the same name overwrites
        last(n) == vcs[CHOOSE i \in DOMAIN vcs :
                          /\ vcs[i].name = n
                          /\ \A j \in DOMAIN vcs : vcs[j].name = n => j <= i]
    IN [phase |-> phase_name,
        resolved |-> [n \in names |->
                         ResolveVariable(last(n), inventory_vars, group_vars,
                                         host_vars, extra_vars)],
        inventory_vars |-> inventory_vars,
        group_vars |-> group_vars,
        host_vars |-> host_vars,
        extra_vars |-> extra_vars]

----------------------------------------------------------------------------
(* plan.py: binding checks *)

\* (variant) binding_index counted from 1
BindingCheckOneBased(var, idx, resolved_var) ==
    [variable |-> var.name,
     binding_index |-> idx + 1,
     binding_type |-> var.binding_targets[idx + 1].type,
     binding_target |-> var.binding_targets[idx + 1].target,
     expected_value |-> resolved_var.value,
     weight |-> var.binding_targets[idx + 1].weight]

\* the BindingCheck emitted for binding number idx (0-based) of var
BindingCheck(var, idx, resolved_var) ==
    [variable |-> var.name,
     binding_index |-> idx,
     binding_type |-> var.binding_targets[idx + 1].type,
     binding_target |-> var.binding_targets[idx + 1].target,
     expected_value |-> resolved_var.value,
     weight |-> var.binding_targets[idx + 1].weight]

build_binding_checks(s, phase_vars) ==
    LET vcs == OptList(s.variable_contracts)
    IN Flatten([v \in DOMAIN vcs |->
           [k \in 1..Len(vcs[v].binding_targets) |->
               BindingCheck(vcs[v], k - 1, phase_vars.resolved[vcs[v].name])]])

----------------------------------------------------------------------------
(* plan.py: behavioral checks.  Attribute fields that are copied through   *)
(* unchanged and that no decision depends on (state, enabled, uid, method, *)
(* expected_status, ...) are represented by the contract's name.           *)

Categories == <<"packages", "pip_packages", "services", "users", "groups",
                "firewall", "files", "reachability", "http_endpoints",
                "external_http", "output_checks">>

\* (variant) only the first entry of the phases list is looked at
_applies_to_phase_first(contract_phases, current_phase) ==
    \/ IsNone(contract_phases)
    \/ Get(contract_phases) # <<>> /\ Get(contract_phases)[1] = current_phase

_applies_to_phase(contract_phases, current_phase) ==
    IsNone(contract_phases) \/ InList(current_phase, Get(contract_phases))

\* `if bc.<category>: for c in bc.<category>: if not applies: continue; ...`:
\* the contracts of one category that a check is appended for, in their order
ApplicableContracts(contracts, phase) ==
    SelectSeq(OptList(contracts), LAMBDA c : _applies_to_phase(c.phases, phase))

HostCheck(c, topology) ==
    [host_targets |-> resolve_node_selector(c.node_selector, topology),
     name |-> c.name,
     weight |-> c.weight]

FirewallCheck(c, topology) ==
    [host_targets |-> resolve_node_selector(c.node_selector, topology),
     ports |-> c.open_ports,
     weight |-> c.weight]

FileCheck(c, topology) ==
    [host_targets |-> resolve_node_selector(c.node_selector, topology),
     items |-> c.items,
     weight |-> c.weight]

ReachabilityCheck(c) ==
    [from_host |-> c.from_host,
     to_host |-> c.to_host,
     port |-> c.port,
     weight |-> c.weight]

HttpEndpointCheck(c, topology) ==
    [host_targets |-> resolve_node_selector(c.node_selector, topology),
     url |-> c.url,
     weight |-> c.weight]

ExternalHttpCheck(c, topology) ==
    [url |-> c.url,
     from_host |-> c.from_host,
     from_node_targets |-> IF IsNone(c.from_node) THEN None
                           ELSE Some(resolve_node_selector(Get(c.from_node), topology)),
     weight |-> c.weight]

OutputCheck(c) ==
    [pattern |-> c.pattern,
     weight |-> c.weight]

EmptyBehavioralChecks == [c \in Range(Categories) |-> <<>>]

build_behavioral_checks(s, topology, phase) ==
    IF IsNone(s.behavioral_contracts) THEN EmptyBehavioralChecks
    ELSE LET bc == Get(s.behavioral_contracts)
             kept(contracts) == ApplicableContracts(contracts, phase)
         IN [packages |-> [i \in DOMAIN kept(bc.packages) |->
                              HostCheck(kept(bc.packages)[i], topology)],
             pip_packages |-> [i \in DOMAIN kept(bc.pip_packages) |->
                                  HostCheck(kept(bc.pip_packages)[i], topology)],
             services |-> [i \in DOMAIN kept(bc.services) |->
                              HostCheck(kept(bc.services)[i], topology)],
             users |-> [i \in DOMAIN kept(bc.users) |->
                           HostCheck(kept(bc.users)[i], topology)],
             groups |-> [i \in DOMAIN kept(bc.groups) |->
                            HostCheck(kept(bc.groups)[i], topology)],
             firewall |-> [i \in DOMAIN kept(bc.firewall) |->
                              FirewallCheck(kept(bc.firewall)[i], topology)],
             files |-> [i \in DOMAIN kept(bc.files) |->
                           FileCheck(kept(bc.files)[i], topology)],
             reachability |-> [i \in DOMAIN kept(bc.reachability) |->
                                  ReachabilityCheck(kept(bc.reachability)[i])],
             http_endpoints |-> [i \in DOMAIN kept(bc.http_endpoints) |->
                                    HttpEndpointCheck(kept(bc.http_endpoints)[i], topology)],
             external_http |-> [i \in DOMAIN kept(bc.external_http) |->
                                   ExternalHttpCheck(kept(bc.external_http)[i], topology)],
             output_checks |-> [i \in DOMAIN kept(bc.output_checks) |->
                                   OutputCheck(kept(bc.output_checks)[i])]]

----------------------------------------------------------------------------
(* plan.py: handler plans, the phase contract plan *)

\* (variant) the idempotence expectation taken from the mutation phase
HandlerPlanMutationTwice(hc, topology) ==
    [handler_name |-> hc.handler_name,
     host_targets |-> resolve_node_selector(hc.node_selector, topology),
     service |-> hc.handler_target.service,
     action |-> hc.handler_target.action,
     expectations |-> [baseline |-> [phase |-> "baseline",
                                     expected_runs |-> hc.expected_runs.baseline],
                       mutation |-> [phase |-> "mutation",
                                     expected_runs |-> hc.expected_runs.mutation],
                       idempotence |-> [phase |-> "idempotence",
                                        expected_runs |-> hc.expected_runs.mutation]],
     weight |-> hc.weight]

HandlerPlan(hc, topology) ==
    [handler_name |-> hc.handler_name,
     host_targets |-> resolve_node_selector(hc.node_selector, topology),
     service |-> hc.handler_target.service,
     action |-> hc.handler_target.action,
     expectations |-> [baseline |-> [phase |-> "baseline",
                                     expected_runs |-> hc.expected_runs.baseline],
                       mutation |-> [phase |-> "mutation",
                                     expected_runs |-> hc.expected_runs.mutation],
                       idempotence |-> [phase |-> "idempotence",
                                        expected_runs |-> hc.expected_runs.idempotence]],
     weight |-> hc.weight]

build_handler_plans(s, topology) ==
    LET hcs == OptList(s.handler_contracts)
    IN [i \in DOMAIN hcs |-> HandlerPlan(hcs[i], topology)]

build_phase_contract_plan(s, topology, phase_name, phase_vars) ==
    LET behavioral == build_behavioral_checks(s, topology, phase_name)
    IN [phase |-> phase_name,
        bindings |-> build_binding_checks(s, phase_vars),
        packages |-> behavioral.packages,
        pip_packages |-> behavioral.pip_packages,
        services |-> behavioral.services,
        users |-> behavioral.users,
        groups |-> behavioral.groups,
        firewall |-> behavioral.firewall,
        files |-> behavioral.files,
        reachability |-> behavioral.reachability,
        http_endpoints |-> behavioral.http_endpoints,
        external_http |-> behavioral.external_http,
        output_checks |-> behavioral.output_checks,
        handlers |-> build_handler_plans(s, topology)]

ExecutionStep(phase, kind) ==
    [name |-> <<phase, kind>>, phase |-> phase, kind |-> kind]

----------------------------------------------------------------------------
(* testgen/bindings.py: the hosts a binding is tested on, the tests *)

\* (variant) the hosts of all levels together, not only of the most specific one
_get_hosts_for_binding_all_levels(s, binding) ==
    LET vcs == OptList(s.variable_contracts)
        found == {i \in DOMAIN vcs : vcs[i].name = binding.variable}
    IN IF found = {} THEN <<>>
       ELSE LET targets == vcs[CHOOSE i \in found : \A j \in found : i <= j]
                               .grading_overlay_targets
                nodes == s.topology.nodes
                kinds == {targets[t].overlay_kind : t \in DOMAIN targets}
                hosts ==
                    {targets[t].target_name : t \in {t \in DOMAIN targets :
                        targets[t].overlay_kind = "host_vars"}}
                    \cup {nodes[n].name : n \in {n \in DOMAIN nodes :
                        \/ kinds \cap {"extra_vars", "inventory_vars"} # {}
                        \/ \E t \in DOMAIN targets :
                              /\ targets[t].overlay_kind = "group_vars"
                              /\ InList(targets[t].target_name, nodes[n].groups)}}
            IN IF hosts # {} THEN sorted(hosts) ELSE <<nodes[1].name>>

_get_hosts_for_binding(s, binding) ==
    LET vcs == OptList(s.variable_contracts)
        found == {i \in DOMAIN vcs : vcs[i].name = binding.variable}
    IN IF found = {} THEN <<>>
       ELSE LET var_contract == vcs[CHOOSE i \in found : \A j \in found : i <= j]
                targets == var_contract.grading_overlay_targets
                nodes == s.topology.nodes
                host_vars_hosts ==
                    {targets[t].target_name : t \in {t \in DOMAIN targets :
                        targets[t].overlay_kind = "host_vars"}}
                group_vars_hosts ==
                    {nodes[n].name : n \in {n \in DOMAIN nodes :
                        \E t \in DOMAIN targets :
                            /\ targets[t].overlay_kind = "group_vars"
                            /\ InList(targets[t].target_name, nodes[n].groups)}}
                global_hosts ==
                    IF \E t \in DOMAIN targets :
                          targets[t].overlay_kind \in {"extra_vars", "inventory_vars"}
                    THEN {nodes[n].name : n \in DOMAIN nodes}
                    ELSE {}
            IN IF host_vars_hosts # {} THEN sorted(host_vars_hosts)
               ELSE IF group_vars_hosts # {} THEN sorted(group_vars_hosts)
               ELSE IF global_hosts # {} THEN sorted(global_hosts)
               ELSE <<nodes[1].name>>

\* testgen/utils.py: a Python str is a TLA+ string, a character a string of
\* length one
Digits == {"0", "1", "2", "3", "4", "5", "6", "7", "8", "9"}
LowerOf ==
    [A |-> "a", B |-> "b", C |-> "c", D |-> "d", E |-> "e", F |-> "f", G |-> "g",
     H |-> "h", I |-> "i", J |-> "j", K |-> "k", L |-> "l", M |-> "m", N |-> "n",
     O |-> "o", P |-> "p", Q |-> "q", R |-> "r", S |-> "s", T |-> "t", U |-> "u",
     V |-> "v", W |-> "w", X |-> "x", Y |-> "y", Z |-> "z"]
Letters == DOMAIN LowerOf \cup {LowerOf[c] : c \in DOMAIN LowerOf}

\* (variant) only the characters that are no letters or digits are replaced
make_safe_name_replacing(str) ==
    LET RECURSIVE substituted(_)
        substituted(t) ==
            IF t = "" THEN ""
            ELSE (IF SubSeq(t, 1, 1) \in Letters \cup Digits THEN SubSeq(t, 1, 1) ELSE "_")
                 \o substituted(Tail(t))
    IN substituted(str)

\* re.sub(r"[^a-zA-Z0-9]", "_", s), re.sub(r"^[0-9]+", "", safe),
\* re.sub(r"_+", "_", safe), safe.strip("_").lower()
make_safe_name(str) ==
    LET RECURSIVE substituted(_), undigited(_), collapsed(_), lstripped(_), rstripped(_),
                  lowered(_)
        substituted(t) ==
            IF t = "" THEN ""
            ELSE (IF SubSeq(t, 1, 1) \in Letters \cup Digits THEN SubSeq(t, 1, 1) ELSE "_")
                 \o substituted(Tail(t))
        undigited(t) ==
            IF t # "" /\ SubSeq(t, 1, 1) \in Digits THEN undigited(Tail(t)) ELSE t
        collapsed(t) ==
            IF Len(t) < 2 THEN t
            ELSE IF SubSeq(t, 1, 2) = "__" THEN collapsed(Tail(t))
            ELSE SubSeq(t, 1, 1) \o collapsed(Tail(t))
        lstripped(t) ==
            IF t # "" /\ SubSeq(t, 1, 1) = "_" THEN lstripped(Tail(t)) ELSE t
        rstripped(t) ==
            IF t # "" /\ SubSeq(t, Len(t), Len(t)) = "_"
            THEN rstripped(SubSeq(t, 1, Len(t) - 1)) ELSE t
        lowered(t) ==
            IF t = "" THEN ""
            ELSE (IF SubSeq(t, 1, 1) \in DOMAIN LowerOf THEN LowerOf[SubSeq(t, 1, 1)]
                  ELSE SubSeq(t, 1, 1))
                 \o lowered(Tail(t))
    IN lowered(rstripped(lstripped(collapsed(undigited(substituted(str))))))

BindingTest(binding, host) ==
    [test_name |-> make_safe_name(binding.variable \o "_" \o binding.binding_type
                                  \o "_" \o host),
     host |-> host,
     binding_type |-> binding.binding_type,
     variable |-> binding.variable,
     expected_value |-> binding.expected_value,
     weight |-> binding.weight]

generate_binding_tests(s, contract, phase) ==
    IF OptList(s.variable_contracts) = <<>> THEN <<>>
    ELSE Flatten([b \in DOMAIN contract.bindings |->
            LET hosts == _get_hosts_for_binding(s, contract.bindings[b])
            IN [h \in DOMAIN hosts |-> BindingTest(contract.bindings[b], hosts[h])]])

----------------------------------------------------------------------------
(* testgen/behavioral.py, testgen/reachability.py: the test data of the      *)
(* behavioral checks of one phase                                           *)

\* A PortRef (spec/contracts.py) is [int |-> n] for the integer n and [var |-> name]
\* for a PortRefVar or its model_dump {"var": name}.

\* (variant) the port is handed on as declared
_resolve_port_as_declared(port_val, resolved_vars) == port_val

\* the same function is defined in behavioral.py and in reachability.py
_resolve_port(port_val, resolved_vars) ==
    IF "var" \in DOMAIN port_val
    THEN \* resolved_vars.get(var_name, port_val)
         IF port_val.var \in DOMAIN resolved_vars
         THEN [int |-> resolved_vars[port_val.var]]
         ELSE port_val
    ELSE port_val

generate_firewall_tests(contract, resolved_vars) ==
    [i \in DOMAIN contract.firewall |->
        LET fw == contract.firewall[i]
        IN [hosts |-> fw.host_targets,
            ports |-> [j \in DOMAIN fw.ports |->
                          [port |-> _resolve_port(fw.ports[j].port, resolved_vars),
                           protocol |-> fw.ports[j].protocol,
                           zone |-> fw.ports[j].zone]],
            weight |-> fw.weight]]

generate_reachability_tests(contract, resolved_vars) ==
    [i \in DOMAIN contract.reachability |->
        LET reach == contract.reachability[i]
        IN [from_host |-> reach.from_host,
            to_host |-> reach.to_host,
            port |-> _resolve_port(reach.port, resolved_vars),
            weight |-> reach.weight]]

\* str(val) of a non-negative integer: its decimal digits
RECURSIVE str(_)
str(val) ==
    LET digit == <<"0", "1", "2", "3", "4", "5", "6", "7", "8", "9">>[(val % 10) + 1]
    IN IF val < 10 THEN <<digit>> ELSE str(val \div 10) \o <<digit>>

\* s.replace(old, new): the occurrences of old from left to right, not overlapping
RECURSIVE replace(_, _, _)
replace(s, old, new) ==
    IF Len(s) < Len(old) THEN s
    ELSE IF SubSeq(s, 1, Len(old)) = old
    THEN new \o replace(SubSeq(s, Len(old) + 1, Len(s)), old, new)
    ELSE <<s[1]>> \o replace(Tail(s), old, new)

\* the loop of _interpolate_vars over the items not yet visited (the values being
\* integers, the order of the visits makes no difference to the result)
RECURSIVE InterpolateLoop(_, _, _)
InterpolateLoop(result, names, resolved_vars) ==
    IF names = {} THEN result
    ELSE LET name == CHOOSE n \in names : TRUE
             val == resolved_vars[name]
             placeholder == <<"{{", " ", name, " ", "}}">>
             placeholder_no_space == <<"{{", name, "}}">>
         IN InterpolateLoop(replace(replace(result, placeholder, str(val)),
                                    placeholder_no_space, str(val)),
                            names \ {name}, resolved_vars)

\* (variant) only the spaced spelling is replaced
RECURSIVE _interpolate_vars_spaced(_, _)
_interpolate_vars_spaced(s, resolved_vars) ==
    IF DOMAIN resolved_vars = {} THEN s
    ELSE LET name == CHOOSE n \in DOMAIN resolved_vars : TRUE
         IN replace(_interpolate_vars_spaced(s, [n \in DOMAIN resolved_vars \ {name} |->
                                                    resolved_vars[n]]),
                    <<"{{", " ", name, " ", "}}">>, str(resolved_vars[name]))

_interpolate_vars(s, resolved_vars) ==
    IF s = <<>> THEN s
    ELSE InterpolateLoop(s, DOMAIN resolved_vars, resolved_vars)

\* safe_name, derived from the url by _make_safe_name, is left out
generate_http_endpoint_tests(contract, resolved_vars) ==
    [i \in DOMAIN contract.http_endpoints |->
        LET http == contract.http_endpoints[i]
        IN [url |-> _interpolate_vars(http.url, resolved_vars),
            hosts |-> http.host_targets,
            weight |-> http.weight]]

generate_external_http_tests(contract, resolved_vars) ==
    LET test_data(ext) == [url |-> _interpolate_vars(ext.url, resolved_vars),
                           weight |-> ext.weight]
        from_the_host == SelectSeq(contract.external_http, LAMBDA ext : ext.from_host)
        \* elif ext.from_node_targets: neither None nor an empty list
        from_nodes == SelectSeq(contract.external_http,
                                LAMBDA ext : /\ ~ext.from_host
                                             /\ ~IsNone(ext.from_node_targets)
                                             /\ Get(ext.from_node_targets) # <<>>)
    IN [host_tests |-> [i \in DOMAIN from_the_host |-> test_data(from_the_host[i])],
        vm_tests |-> [i \in DOMAIN from_nodes |->
                         [url |-> test_data(from_nodes[i]).url,
                          weight |-> from_nodes[i].weight,
                          hosts |-> Get(from_nodes[i].from_node_targets)]]]

\* safe_name, derived from the description or the pattern, is left out
generate_output_tests(contract) ==
    [i \in DOMAIN contract.output_checks |->
        [pattern |-> contract.output_checks[i].pattern,
         weight |-> contract.output_checks[i].weight]]

generate_handler_tests(contract) ==
    LET expected == SelectSeq(contract.handlers,
                              LAMBDA h : contract.phase \in DOMAIN h.expectations)
    IN [i \in DOMAIN expected |->
           [name |-> expected[i].handler_name,
            service |-> expected[i].service,
            action |-> expected[i].action,
            hosts |-> expected[i].host_targets,
            expected_runs |-> expected[i].expectations[contract.phase].expected_runs,
            weight |-> expected[i].weight]]

----------------------------------------------------------------------------
(* The specifications the plan is built for *)

GroupNames == {"app", "web", "zeta"}
HostNames == {"app1", "web1", "zeta1"}

\* all Dict[str, Any] over the given variable names
VarMaps(names) ==
    LET VarValues ==
            {8080, 9090}
    IN
    UNION {[D -> VarValues] : D \in SUBSET names}

\* all Dict[str, Dict[str, Any]] of at most n entries, in every insertion order
DictSeqs(keys, n, maps) ==
    UNION {{[i \in DOMAIN ks |-> [name |-> ks[i], vars |-> f[i]]] :
               f \in [DOMAIN ks -> maps]} : ks \in SeqsNoDup(keys, n)}

Opt(S) == {None} \cup {Some(x) : x \in S}

Overlays(inv, gvs, hvs, ext) ==
    [inventory_vars : inv, group_vars : gvs, host_vars : hvs, extra_vars : ext,
     reboot : {None}, failure_policy : {None}]

NoOverlayData == [inventory_vars |-> None, group_vars |-> None, host_vars |-> None,
                  extra_vars |-> None, reboot |-> None, failure_policy |-> None]

\* web1 and app1 are declared in this order (not the sorted one)
TwoNodeTopology ==
    [nodes |-> <<[name |-> "web1", groups |-> <<"web">>],
                 [name |-> "app1", groups |-> <<"app">>]>>]

\* a variable contract with n binding targets
VariableContract(name, n, targets) ==
    LET BindingTypes ==
            <<"service_listen_port", "file_contains", "firewall_port_open">>
    IN
    [name |-> name,
     defaults |-> [student |-> 80],
     binding_targets |-> [k \in 1..n |->
         [type |-> BindingTypes[((k - 1) % Len(BindingTypes)) + 1],
          target |-> k, weight |-> k]],
     grading_overlay_targets |-> targets]

WebTarget == <<[overlay_kind |-> "group_vars", target_name |-> "web"]>>

HammerSpec(topology, vcs, baseline, mutation, bc, hcs) ==
    [topology |-> topology,
     variable_contracts |-> vcs,
     behavioral_contracts |-> bc,
     handler_contracts |-> hcs,
     phase_overlays |-> [baseline |-> baseline, mutation |-> mutation]]

PrecedenceSpecs ==
    LET OtherPhaseOverlays ==
            {None, Some(NoOverlayData),
             Some([NoOverlayData EXCEPT !.extra_vars = Some([http_port |-> 9090])])}
    IN
    \* one variable, every combination of the four layers in one phase
    LET LayerOverlays ==
            Overlays(Opt(VarMaps({"http_port"})),
                     Opt(DictSeqs({"web"}, 1, VarMaps({"http_port"}))),
                     Opt(DictSeqs({"web1"}, 1, VarMaps({"http_port"}))),
                     Opt(VarMaps({"http_port"})))
    IN
    {HammerSpec(TwoNodeTopology, Some(<<VariableContract("http_port", 1, WebTarget)>>),
                Some(b), m, None, None) : b \in LayerOverlays, m \in OtherPhaseOverlays}
    \cup
    {HammerSpec(TwoNodeTopology, Some(<<VariableContract("http_port", 1, WebTarget)>>),
                b, Some(m), None, None) : b \in OtherPhaseOverlays, m \in LayerOverlays}

TieBreakSpecs ==
    \* several groups (or hosts) of one dictionary set the variable
    LET TieOverlays ==
            Overlays({None}, {Some(d) : d \in DictSeqs(GroupNames, MaxEntries, VarMaps({"http_port"}))},
                     {None}, {None})
            \cup
            Overlays({None}, {None},
                     {Some(d) : d \in DictSeqs(HostNames, MaxEntries, VarMaps({"http_port"}))},
                     {None})
    IN
    {HammerSpec(TwoNodeTopology, Some(<<VariableContract("http_port", 1, WebTarget)>>),
                Some(b), None, None, None) : b \in TieOverlays}
    \cup
    {HammerSpec(TwoNodeTopology, Some(<<VariableContract("http_port", 1, WebTarget)>>),
                Some(NoOverlayData), Some(m), None, None) : m \in TieOverlays}

\* one or two variables, each with 0..MaxBindings binding targets
OverlayTargetLists ==
    {<<[overlay_kind |-> "group_vars", target_name |-> "web"]>>,
     <<[overlay_kind |-> "host_vars", target_name |-> "app1"]>>,
     <<[overlay_kind |-> "extra_vars", target_name |-> "all"]>>,
     <<[overlay_kind |-> "group_vars", target_name |-> "all"]>>,
     <<[overlay_kind |-> "group_vars", target_name |-> "web"],
       [overlay_kind |-> "group_vars", target_name |-> "app"]>>,
     <<[overlay_kind |-> "group_vars", target_name |-> "app"],
       [overlay_kind |-> "host_vars", target_name |-> "web1"]>>,
     <<[overlay_kind |-> "extra_vars", target_name |-> "all"],
       [overlay_kind |-> "group_vars", target_name |-> "web"]>>,
     <<[overlay_kind |-> "inventory_vars", target_name |-> "all"],
       [overlay_kind |-> "group_vars", target_name |-> "all"]>>}

VariableContracts(name, targets) ==
    {VariableContract(name, n, t) : n \in 0..MaxBindings, t \in targets}

VariableContractLists ==
    \* the overlay targets of the second variable of a two-variable specification
    LET SecondTargetLists ==
            {<<[overlay_kind |-> "host_vars", target_name |-> "app1"]>>,
             <<[overlay_kind |-> "group_vars", target_name |-> "app"],
               [overlay_kind |-> "host_vars", target_name |-> "web1"]>>}
    IN
    {<<v>> : v \in VariableContracts("http_port", OverlayTargetLists)
                   \cup VariableContracts("app_port", OverlayTargetLists)}
    \cup {<<v, w>> : v \in VariableContracts("http_port", OverlayTargetLists),
                     w \in VariableContracts("app_port", SecondTargetLists)}
    \cup {<<w, v>> : v \in VariableContracts("http_port", OverlayTargetLists),
                     w \in VariableContracts("app_port", SecondTargetLists)}

BindingBaseline ==
    [NoOverlayData EXCEPT
        !.group_vars = Some(<<[name |-> "web", vars |-> [http_port |-> 8080]],
                              [name |-> "app", vars |-> [app_port |-> 8080]]>>)]

BindingMutations ==
    {None,
     Some([NoOverlayData EXCEPT !.extra_vars = Some([http_port |-> 9090])]),
     Some([NoOverlayData EXCEPT !.inventory_vars = Some([app_port |-> 9090]),
                                !.extra_vars = Some([http_port |-> 9090])])}

BindingSpecs ==
    {HammerSpec(TwoNodeTopology, Some(vcs), Some(BindingBaseline), m, None, None) :
        vcs \in VariableContractLists, m \in BindingMutations}

\* the k-th contract of a category: its selector alternates host / group
PositionSelector(k) ==
    IF k % 2 = 1 THEN [host |-> Some("web1"), group |-> None]
    ELSE [host |-> None, group |-> Some("app")]

Contract(cat, k, contract_phases) ==
    LET ContractNames ==
            <<"nginx", "httpd", "chrony">>
    IN
    LET name == ContractNames[((k - 1) % Len(ContractNames)) + 1]
    IN CASE cat \in {"packages", "pip_packages", "services", "users", "groups"} ->
               [name |-> name, node_selector |-> PositionSelector(k),
                phases |-> contract_phases, weight |-> k]
         [] cat = "firewall" ->
               [open_ports |-> <<[port |-> [int |-> 80], protocol |-> "tcp", zone |-> "public"]>>,
                node_selector |-> PositionSelector(k), phases |-> contract_phases, weight |-> k]
         [] cat = "files" ->
               [items |-> <<[path |-> name, present |-> TRUE]>>,
                node_selector |-> PositionSelector(k), phases |-> contract_phases, weight |-> k]
         [] cat = "reachability" ->
               [from_host |-> "web1", to_host |-> "app1", port |-> [int |-> 80],
                phases |-> contract_phases, weight |-> k]
         [] cat = "http_endpoints" ->
               [url |-> <<name>>, node_selector |-> PositionSelector(k),
                phases |-> contract_phases, weight |-> k]
         [] cat = "external_http" ->
               [url |-> <<name>>, from_host |-> (k % 2 = 0),
                from_node |-> IF k % 2 = 0 THEN None ELSE Some(PositionSelector(k + 1)),
                phases |-> contract_phases, weight |-> k]
         [] cat = "output_checks" ->
               [pattern |-> <<name>>, phases |-> contract_phases, weight |-> k]

NoBehavioralContracts == [c \in Range(Categories) |-> None]

\* the phase lists in a fixed order, to give every category its own in MixedContracts
PhaseListOrder ==
    <<None, Some(<<>>), Some(<<"baseline">>), Some(<<"mutation">>), Some(<<"idempotence">>),
      Some(<<"mutation", "idempotence">>), Some(<<"idempotence", "baseline">>),
      Some(<<"baseline", "mutation", "idempotence">>)>>

CategoryIndex(cat) == CHOOSE i \in DOMAIN Categories : Categories[i] = cat

\* the phase lists of up to MaxContracts contracts of one category
PhaseListSeqs ==
    \* the phase lists of the contracts after the first of a category
    LET FurtherPhaseLists ==
            {None, Some(<<"baseline">>), Some(<<"mutation", "idempotence">>)}
    IN
    \* behavioral contracts: phase lists, one shape per category
    LET PhaseLists ==
            {None, Some(<<>>), Some(<<"baseline">>), Some(<<"mutation">>), Some(<<"idempotence">>),
             Some(<<"mutation", "idempotence">>), Some(<<"idempotence", "baseline">>),
             Some(<<"baseline", "mutation", "idempotence">>)}
    IN
    {<<>>} \cup {<<first>> \o rest :
                    first \in PhaseLists, rest \in SeqsUpTo(FurtherPhaseLists, MaxContracts - 1)}

BehavioralContracts ==
    \* one category with up to MaxContracts contracts, the others absent
    UNION {{[NoBehavioralContracts EXCEPT ![cat] =
                 Some([k \in DOMAIN phs |-> Contract(cat, k, phs[k])])] :
               phs \in PhaseListSeqs} : cat \in Range(Categories)}
    \cup
    \* one contract in every category, the phase lists differing between categories
    {[cat \in Range(Categories) |->
         Some(<<Contract(cat, 1,
                   PhaseListOrder[((CategoryIndex(cat) + shift) % Len(PhaseListOrder)) + 1])>>)] :
        shift \in 0..(Len(PhaseListOrder) - 1)}

ContractSpecs ==
    {HammerSpec(TwoNodeTopology, None, None, None, bc, None) :
        bc \in Opt(BehavioralContracts)}

TopologySpecs ==
    \* topologies: the nodes in every declaration order, every group list
    LET Topologies ==
            LET \* up to MaxNodeGroups groups: "web" some times, then "app" some times
                groupLists == {[i \in 1..(n + m) |-> IF i <= n THEN "web" ELSE "app"] :
                                  n \in 0..MaxNodeGroups, m \in 0..MaxNodeGroups}
                              \cap SeqsUpTo({"app", "web"}, MaxNodeGroups)
                nameLists == SeqsNoDup(HostNames, MaxNodes) \ {<<>>}
                \* the nodes after the second are in no group or in "web"
                assignments(ns) == {g \in [DOMAIN ns -> groupLists] :
                                       \A i \in DOMAIN ns : i > 2 => g[i] \in {<<>>, <<"web">>}}
            IN UNION {{[nodes |-> [i \in DOMAIN ns |-> [name |-> ns[i], groups |-> g[i]]]] :
                          g \in assignments(ns)} : ns \in nameLists}
    IN
    {HammerSpec(t, None, None, None, None, None) : t \in Topologies}

HandlerContract(name, selector, expected_runs) ==
    [handler_name |-> name,
     node_selector |-> selector,
     handler_target |-> [service |-> name, action |-> "restart"],
     expected_runs |-> expected_runs,
     weight |-> 2]

\* one handler with every expectation set and selector, alone or followed by a
\* second handler
HandlerContractLists ==
    LET ExpectedRuns == {"zero", "at_least_once", "exactly_once"}
        first == {HandlerContract("nginx", selector, expected) :
                     selector \in {[host |-> Some("web1"), group |-> None],
                                   [host |-> None, group |-> Some("app")],
                                   [host |-> None, group |-> None]},
                     expected \in [{"baseline", "mutation", "idempotence"} -> ExpectedRuns]}
        second == HandlerContract("app", [host |-> None, group |-> Some("web")],
                                  [baseline |-> "at_least_once", mutation |-> "zero",
                                   idempotence |-> "zero"])
    IN {<<h>> : h \in first} \cup {<<h, second>> : h \in first}

HandlerSpecs ==
    {HammerSpec(TwoNodeTopology, None, None, None, None, Some(hcs)) :
        hcs \in HandlerContractLists}

\* ports given as integers and as references to the declared variable http_port,
\* whose value differs between the baseline and the mutation overlay
PortContracts ==
    LET PortRefs == {[int |-> 80], [int |-> 443], [var |-> "http_port"]}
    IN
    {[NoBehavioralContracts EXCEPT
         !.firewall = Some(<<[open_ports |-> [j \in DOMAIN ports |->
                                  [port |-> ports[j], protocol |-> "tcp", zone |-> "public"]],
                              node_selector |-> PositionSelector(1),
                              phases |-> fw_phases, weight |-> 1]>>),
         !.reachability = Some(<<[from_host |-> "web1", to_host |-> "app1", port |-> port,
                                  phases |-> None, weight |-> 1]>>)] :
        ports \in SeqsUpTo(PortRefs, 2) \ {<<>>}, port \in PortRefs,
        fw_phases \in {None, Some(<<"mutation">>)}}

PortSpecs ==
    {HammerSpec(TwoNodeTopology, Some(<<VariableContract("http_port", 0, WebTarget)>>),
                Some(BindingBaseline), m, Some(bc), None) :
        m \in BindingMutations, bc \in PortContracts}

\* URLs and output patterns with placeholders of the declared variable http_port
\* in both spellings, once and twice, with a placeholder of another name and with
\* a placeholder in a third spelling
TemplatedContracts ==
    LET TemplatedTexts ==
            {<<"http://web1/">>,
             <<"http://web1:", "{{", " ", "http_port", " ", "}}", "/">>,
             <<"http://web1:", "{{", "http_port", "}}", "/">>,
             <<"{{", "http_port", "}}", "=", "{{", " ", "http_port", " ", "}}">>,
             <<"http://web1:", "{{", " ", "app_port", " ", "}}", "{{", "http_port", "}}">>,
             <<"http://web1:", "{{", " ", "http_port", "}}">>}
    IN
    {[NoBehavioralContracts EXCEPT
         !.http_endpoints = Some(<<[url |-> text, node_selector |-> PositionSelector(1),
                                    phases |-> None, weight |-> 1]>>),
         !.external_http = Some(<<[url |-> text, from_host |-> from.from_host,
                                   from_node |-> from.from_node, phases |-> None,
                                   weight |-> 1]>>),
         !.output_checks = Some(<<[pattern |-> pattern, phases |-> None, weight |-> 1]>>)] :
        text \in TemplatedTexts,
        pattern \in {<<"listening on ", "{{", " ", "http_port", " ", "}}">>, <<"changed=0">>},
        from \in {[from_host |-> TRUE, from_node |-> None],
                  [from_host |-> FALSE, from_node |-> Some(PositionSelector(2))]}}

TemplatedSpecs ==
    {HammerSpec(TwoNodeTopology, Some(<<VariableContract("http_port", 0, WebTarget)>>),
                Some(BindingBaseline), m, Some(bc), None) :
        m \in BindingMutations, bc \in TemplatedContracts}

\* specifications whose optional parts are absent (None) or empty
SparseSpecs ==
    {HammerSpec(TwoNodeTopology, vcs, b, m, bc, hcs) :
        vcs \in {None, Some(<<>>)},
        b \in {None, Some(NoOverlayData)}, m \in {None, Some(NoOverlayData)},
        bc \in {None, Some(NoBehavioralContracts),
                Some([c \in Range(Categories) |-> Some(<<>>)])},
        hcs \in {None, Some(<<>>)}}

\* the names of the binding tests: two bindings of one type in one variable,
\* two variables whose names differ in case and in "-" and "_", a node name
\* that ends with "-"
NamingSpecs ==
    LET twice == [VariableContract("http_port", 2, WebTarget) EXCEPT
                     !.binding_targets[2].type = "service_listen_port"]
        HyphenTopology ==
            [nodes |-> <<[name |-> "web-", groups |-> <<"web">>],
                         [name |-> "app1", groups |-> <<"app">>]>>]
    IN {HammerSpec(t, Some(vcs), Some(BindingBaseline), None, None, None) :
           t \in {TwoNodeTopology, HyphenTopology},
           vcs \in {<<twice>>,
                    <<VariableContract("http_port", 2, WebTarget)>>,
                    <<VariableContract("http_port", 1, WebTarget),
                      VariableContract("HTTP--Port", 1, WebTarget)>>,
                    <<VariableContract("http_port", 1, WebTarget),
                      VariableContract("app_port", 1, WebTarget)>>}}

SpecInputs ==
    PrecedenceSpecs \cup TieBreakSpecs \cup BindingSpecs \cup ContractSpecs \cup TopologySpecs
    \cup HandlerSpecs \cup PortSpecs \cup TemplatedSpecs \cup SparseSpecs \cup NamingSpecs

----------------------------------------------------------------------------
(* build_execution_plan and generate_tests, one loop iteration per action *)

\* pc once build_execution_plan has returned
PlanDone == 2 * Len(PhaseNames) + 1
\* pc once generate_tests has visited the three phases
TestsDone == 3 * Len(PhaseNames) + 1

\* the grading pipeline is not running
\* nothing built, nothing written, nothing called
NoFiles ==
    [group_vars |-> <<>>, host_vars |-> <<>>, overlays |-> <<>>, results |-> {},
     calls |-> <<>>]

GradeIdle ==
    /\ phases = None
    /\ env = <<>>
    /\ gi = 0
    /\ step = "idle"
    /\ cur = None
    /\ report = None
    /\ runs = <<>>
    /\ score_call = None
    /\ rb = None
    /\ fs = NoFiles

Init ==
    /\ spec \in SpecInputs
    /\ pc = 1
    /\ plan = [variables |-> <<>>, contracts |-> <<>>, steps |-> <<>>]
    /\ sel = None
    /\ bind_tests = <<>>
    /\ gen = None
    /\ GradeIdle

\* first loop of build_execution_plan: the variable and contract plan of one phase
BuildPhase ==
    /\ pc \in 1..3
    /\ LET phase == PhaseNames[pc]
           phase_vars == build_phase_variable_plan(spec, phase)
       IN plan' = [plan EXCEPT
              !.variables = @ @@ (phase :> phase_vars),
              !.contracts = @ @@ (phase :>
                  build_phase_contract_plan(spec, spec.topology, phase, phase_vars))]
    /\ pc' = pc + 1
    /\ UNCHANGED <<spec, sel, bind_tests, gen, gradeVars>>

\* second loop of build_execution_plan: the three steps of one phase
AppendSteps ==
    /\ pc \in 4..6
    /\ LET phase == PhaseNames[pc - 3]
       IN plan' = [plan EXCEPT !.steps = @ \o <<ExecutionStep(phase, "converge"),
                                                ExecutionStep(phase, "snapshot"),
                                                ExecutionStep(phase, "verify")>>]
    /\ pc' = pc + 1
    /\ UNCHANGED <<spec, sel, bind_tests, gen, gradeVars>>

\* generate_tests: the binding tests of one phase
GeneratePhaseTests ==
    /\ pc \in PlanDone..(TestsDone - 1)
    /\ LET phase == PhaseNames[pc - PlanDone + 1]
       IN bind_tests' = bind_tests @@
              (phase :> generate_binding_tests(spec, plan.contracts[phase], phase))
    /\ pc' = pc + 1
    /\ UNCHANGED <<spec, plan, sel, gen, gradeVars>>

Selectors ==
    {[host |-> Some(h), group |-> None] : h \in HostNames}
    \cup {[host |-> None, group |-> Some(g)] : g \in GroupNames}
    \cup {[host |-> None, group |-> None]}

\* a direct call of resolve_node_selector on the specification's topology (a
\* behaviour makes one direct call, of this function or of the test generators)
ResolveSelector ==
    /\ pc = TestsDone
    /\ sel = None
    /\ gen = None
    /\ \E s \in Selectors :
          sel' = Some([selector |-> s, hosts |-> resolve_node_selector(s, spec.topology)])
    /\ UNCHANGED <<spec, pc, plan, bind_tests, gen, gradeVars>>

\* testgen/__init__.py, _get_resolved_vars
_get_resolved_vars(p, phase) ==
    [name \in DOMAIN p.variables[phase].resolved |-> p.variables[phase].resolved[name].value]

\* a direct call of the behavioral test generators on the contract plan of a phase
GenerateTests ==
    /\ pc = TestsDone
    /\ sel = None
    /\ gen = None
    /\ \E phase \in Range(PhaseNames) :
          LET contract == plan.contracts[phase]
              resolved_vars == _get_resolved_vars(plan, phase)
          IN gen' = Some([phase |-> phase,
                          firewall |-> generate_firewall_tests(contract, resolved_vars),
                          reachability |-> generate_reachability_tests(contract, resolved_vars),
                          http_endpoints |-> generate_http_endpoint_tests(contract, resolved_vars),
                          external_http |-> generate_external_http_tests(contract, resolved_vars),
                          output |-> generate_output_tests(contract),
                          handlers |-> generate_handler_tests(contract)])
    /\ UNCHANGED <<spec, pc, plan, sel, bind_tests, gradeVars>>

Next == BuildPhase \/ AppendSteps \/ GeneratePhaseTests \/ ResolveSelector \/ GenerateTests

Spec == Init /\ [][Next]_vars

----------------------------------------------------------------------------
(* plan.py: build_execution_plan as one value (what grade_assignment calls) *)

\* (variant) the steps grouped by kind: the three converges first
build_execution_plan_by_kind(s) ==
    LET phase_vars == [p \in Range(PhaseNames) |-> build_phase_variable_plan(s, p)]
        kinds == <<"converge", "snapshot", "verify">>
    IN [variables |-> phase_vars,
        contracts |-> [p \in Range(PhaseNames) |->
                          build_phase_contract_plan(s, s.topology, p, phase_vars[p])],
        steps |-> Flatten([k \in DOMAIN kinds |->
                     [i \in DOMAIN PhaseNames |-> ExecutionStep(PhaseNames[i], kinds[k])]])]

build_execution_plan(s) ==
    LET phase_vars == [p \in Range(PhaseNames) |-> build_phase_variable_plan(s, p)]
    IN [variables |-> phase_vars,
        contracts |-> [p \in Range(PhaseNames) |->
                          build_phase_contract_plan(s, s.topology, p, phase_vars[p])],
        steps |-> Flatten([i \in DOMAIN PhaseNames |->
                     <<ExecutionStep(PhaseNames[i], "converge"),
                       ExecutionStep(PhaseNames[i], "snapshot"),
                       ExecutionStep(PhaseNames[i], "verify")>>])]

----------------------------------------------------------------------------
(* runner/ansible.py: the converge executor *)

RECURSIVE SumSeq(_)
\* sum() over a list of numbers
SumSeq(q) == IF q = <<>> THEN 0 ELSE Head(q) + SumSeq(Tail(q))

\* ConvergeResult(...) with the defaults of the fields not given
ConvergeResult(ok, changed, failed, unreachable, skipped, rescued, ignored, play_recap, handlers_run, success, error_message) ==
    [ok |-> ok, changed |-> changed, failed |-> failed, unreachable |-> unreachable,
     skipped |-> skipped, rescued |-> rescued, ignored |-> ignored,
     play_recap |-> play_recap, handlers_run |-> handlers_run,
     success |-> success, error_message |-> error_message]

\* stdout is a record: the host lines of the PLAY RECAP, the RUNNING HANDLER lines
\* (counted per handler name), and the "fatal:" / "FAILED!" lines
NoOutput == [recap |-> <<>>, handlers |-> <<>>, failures |-> <<>>]

parse_play_recap(stdout, success, error_message) ==
    LET r == stdout.recap
        total(f) == SumSeq([i \in DOMAIN r |-> r[i][f]])
        hosts == {r[i].host : i \in DOMAIN r}
        \* play_recap[host] = {...}: a later line of the same host overwrites
        last(h) == r[CHOOSE i \in DOMAIN r :
                       r[i].host = h /\ \A j \in DOMAIN r : r[j].host = h => j <= i]
    IN ConvergeResult(total("ok"), total("changed"), total("failed"),
                      total("unreachable"), total("skipped"), total("rescued"),
                      total("ignored"),
                      [h \in hosts |->
                          [ok |-> last(h).ok, changed |-> last(h).changed,
                           unreachable |-> last(h).unreachable,
                           failures |-> last(h).failed, skipped |-> last(h).skipped,
                           rescued |-> last(h).rescued, ignored |-> last(h).ignored]],
                      stdout.handlers, success, error_message)

\* run: what the ansible-playbook process does
\*   kind "not_found"  the executable is not found
\*   kind "exit"       the process ends with run.returncode, printing run.stdout
\*   kind "timeout"    TimeoutExpired, run.stdout is the partial output
\*   kind "exception"  another exception of subprocess.run
run_playbook(run) ==
    CASE run.kind = "not_found" ->
            [result |-> ConvergeResult(0, 0, 0, 0, 0, 0, 0, <<>>, <<>>, FALSE,
                                       Some("ansible-playbook not found")),
             log |-> NoOutput]
      [] run.kind = "exit" ->
            [result |-> parse_play_recap(run.stdout, run.returncode = 0,
                            IF run.returncode = 0 THEN None ELSE Some("Exit code")),
             log |-> run.stdout]
      [] run.kind = "timeout" ->
            [result |-> parse_play_recap(run.stdout, FALSE, Some("Playbook timed out")),
             log |-> run.stdout]
      [] run.kind = "exception" ->
            [result |-> parse_play_recap(NoOutput, FALSE, Some("exception")),
             log |-> NoOutput]

\* (variant) a run with changed tasks still counts as idempotent
check_idempotence_ignoring_changed(result) ==
    IF ~result.success
    THEN [idempotent |-> FALSE, message |-> "Playbook failed", count |-> 0]
    ELSE IF result.failed > 0
    THEN [idempotent |-> FALSE, message |-> "failed tasks", count |-> result.failed]
    ELSE IF result.unreachable > 0
    THEN [idempotent |-> FALSE, message |-> "unreachable hosts", count |-> result.unreachable]
    ELSE [idempotent |-> TRUE, message |-> "Playbook is idempotent", count |-> 0]

\* the message is kept as its fixed text and the count formatted into it
check_idempotence(result) ==
    IF ~result.success
    THEN [idempotent |-> FALSE, message |-> "Playbook failed", count |-> 0]
    ELSE IF result.failed > 0
    THEN [idempotent |-> FALSE, message |-> "failed tasks", count |-> result.failed]
    ELSE IF result.unreachable > 0
    THEN [idempotent |-> FALSE, message |-> "unreachable hosts", count |-> result.unreachable]
    ELSE IF result.changed > 0
    THEN [idempotent |-> FALSE, message |-> "changed tasks", count |-> result.changed]
    ELSE [idempotent |-> TRUE, message |-> "Playbook is idempotent", count |-> 0]

----------------------------------------------------------------------------
(* runner/pytest_runner.py: the test harness *)

TestResult(passed, failed, skipped, errors, total_weight, earned_weight, details) ==
    [passed |-> passed, failed |-> failed, skipped |-> skipped, errors |-> errors,
     total_weight |-> total_weight, earned_weight |-> earned_weight,
     details |-> details]

\* weight = float(metadata.get("weight", 1.0))
TestWeight(test) == IF IsNone(test.weight) THEN 1 ELSE Get(test.weight)

CountOutcome(tests, outcome) ==
    Cardinality({i \in DOMAIN tests : tests[i].outcome = outcome})

\* tests: the "tests" list of the JSON report; its "summary" counts the outcomes
parse_pytest_json(tests) ==
    TestResult(CountOutcome(tests, "passed"), CountOutcome(tests, "failed"),
               CountOutcome(tests, "skipped"), CountOutcome(tests, "error"),
               SumSeq([i \in DOMAIN tests |-> TestWeight(tests[i])]),
               SumSeq([i \in DOMAIN tests |->
                          IF tests[i].outcome = "passed" THEN TestWeight(tests[i]) ELSE 0]),
               [i \in DOMAIN tests |-> [outcome |-> tests[i].outcome,
                                        weight |-> TestWeight(tests[i])]])

\* run: what the pytest process does
\*   kind "no_tests"   the phase has no test directory
\*   kind "timeout"    TimeoutExpired
\*   kind "report"     the JSON report was written, run.tests is its test list
\*   kind "no_report"  no report file, run.returncode is the exit code
run_phase_tests(run) ==
    CASE run.kind = "no_tests" -> TestResult(0, 0, 0, 0, 0, 0, <<>>)
      [] run.kind = "timeout" -> TestResult(0, 0, 0, 1, 0, 0, <<>>)
      [] run.kind = "report" -> parse_pytest_json(run.tests)
      [] run.kind = "no_report" ->
            TestResult(IF run.returncode # 0 THEN 0 ELSE 1,
                       IF run.returncode # 0 THEN 1 ELSE 0, 0, 0, 0, 0, <<>>)

----------------------------------------------------------------------------
(* runner/results.py: scoring *)

\* (variant) without the guard on a zero total weight
calculate_phase_score_unguarded(tests) ==
    [earned |-> tests.earned_weight, max |-> tests.total_weight]

calculate_phase_score(tests) ==
    IF tests.total_weight = 0 THEN [earned |-> 0, max |-> 0]
    ELSE [earned |-> tests.earned_weight, max |-> tests.total_weight]

\* a float quotient is kept as the pair numerator / denominator
Quotient(num, den) == [num |-> num, den |-> den]
Zero == Quotient(0, 1)

\* (variant) the percentage of the maximum that was not earned
calculate_total_score_lost(phs) ==
    LET keys == sorted(DOMAIN phs)
        total_earned == SumSeq([i \in DOMAIN keys |-> phs[keys[i]].score])
        total_max == SumSeq([i \in DOMAIN keys |-> phs[keys[i]].max_score])
    IN IF total_max = 0
       THEN [earned |-> 0, max |-> 0, percentage |-> Zero]
       ELSE [earned |-> total_earned, max |-> total_max,
             percentage |-> Quotient((total_max - total_earned) * 100, total_max)]

calculate_total_score(phs) ==
    LET keys == sorted(DOMAIN phs)
        total_earned == SumSeq([i \in DOMAIN keys |-> phs[keys[i]].score])
        total_max == SumSeq([i \in DOMAIN keys |-> phs[keys[i]].max_score])
    IN IF total_max = 0
       THEN [earned |-> 0, max |-> 0, percentage |-> Zero]
       ELSE [earned |-> total_earned, max |-> total_max,
             percentage |-> Quotient(total_earned * 100, total_max)]

----------------------------------------------------------------------------
(* runner/__init__.py: the failure policy *)

\* re.search(pattern, failure_msg): a pattern is the set of messages it matches
Matches(pattern, failure_msg) == failure_msg \in pattern

\* (variant) one matching failure message is enough
_check_failure_policy_any(converge_result, converge_log, policy) ==
    IF ~policy.allow_failures THEN FALSE
    ELSE IF ~IsNone(policy.max_failures) /\ converge_result.failed > Get(policy.max_failures)
    THEN FALSE
    ELSE LET patterns == OptList(policy.expected_patterns)
             failure_messages == converge_log.failures
         IN (patterns # <<>> /\ failure_messages # <<>>) =>
               \E m \in DOMAIN failure_messages :
                   \E k \in DOMAIN patterns : Matches(patterns[k], failure_messages[m])

_check_failure_policy(converge_result, converge_log, policy) ==
    IF ~policy.allow_failures THEN FALSE
    ELSE IF ~IsNone(policy.max_failures) /\ converge_result.failed > Get(policy.max_failures)
    THEN FALSE
    ELSE LET patterns == OptList(policy.expected_patterns)
             failure_messages == converge_log.failures
         IN patterns # <<>> =>
               \A m \in DOMAIN failure_messages :
                   \E k \in DOMAIN patterns : Matches(patterns[k], failure_messages[m])

\* (variant) the report succeeds as soon as one phase is clean
report_success_any(phs) ==
    \E p \in DOMAIN phs :
        phs[p].converge.success /\ phs[p].tests.failed = 0 /\ phs[p].tests.errors = 0

\* all(p.converge.success and p.tests.failed == 0 and p.tests.errors == 0 ...)
report_success(phs) ==
    \A p \in DOMAIN phs :
        phs[p].converge.success /\ phs[p].tests.failed = 0 /\ phs[p].tests.errors = 0

----------------------------------------------------------------------------
(* The grading runs: specifications, phase lists, collaborator outcomes *)

RecapLine(ok, changed, unreachable, failed, other) ==
    [host |-> "", ok |-> ok, changed |-> changed, unreachable |-> unreachable,
     failed |-> failed, skipped |-> other, rescued |-> other, ignored |-> other]

\* the i-th line of a recap is the line of the i-th host
Recap(ls) ==
    LET RecapHosts ==
            <<"web1", "app1", "zeta1", "db1">>
    IN
    [i \in DOMAIN ls |-> [ls[i] EXCEPT !.host = RecapHosts[i]]]

CleanRecap == Recap(<<RecapLine(1, 0, 0, 0, 0), RecapLine(1, 0, 0, 0, 0)>>)
FailedRecap == Recap(<<RecapLine(1, 1, 0, 1, 0), RecapLine(1, 0, 0, 0, 0)>>)

ExitRun(returncode, recap, handlers, failures) ==
    [kind |-> "exit", returncode |-> returncode,
     stdout |-> [recap |-> recap, handlers |-> handlers, failures |-> failures]]

CleanConverge == ExitRun(0, CleanRecap, <<>>, <<>>)
\* a converge stopped by its timeout after the recap of a clean run was printed
TimedOutConverge == [kind |-> "timeout", stdout |-> CleanConverge.stdout]
FailedConverge == ExitRun(2, FailedRecap, <<>>, <<"fatal_expected">>)

\* a host line with every combination of counts up to MaxCount
RecapLines ==
    {RecapLine(1, c, u, f, c) : c \in 0..MaxCount, u \in 0..MaxCount, f \in 0..MaxCount}

\* every recap of up to MaxNodes host lines
Recaps ==
    \* the lines of the further hosts: nothing changed, or one task changed
    LET FurtherLines ==
            {RecapLine(1, 0, 0, 0, 0), RecapLine(1, 1, 0, 0, 1)}
    IN
    {<<>>} \cup {Recap(<<l>> \o ls) :
                    l \in RecapLines, ls \in SeqsUpTo(FurtherLines, MaxNodes - 1)}

ConvergeRuns ==
    {[kind |-> "not_found"], [kind |-> "exception"]}
    \cup {ExitRun(rc, r, <<>>, <<>>) : rc \in {0, 2}, r \in Recaps}
    \cup {[kind |-> "timeout",
           stdout |-> [recap |-> Recap(<<l>>), handlers |-> [restart_nginx |-> 1],
                       failures |-> <<>>]] : l \in RecapLines}

\* up to MaxMessages failure lines: the expected ones, then the other ones
FailureLogs ==
    \* the "fatal:" lines a failing converge prints
    LET FailureMessages ==
            {"fatal_expected", "fatal_other"}
    IN
    {[i \in 1..(n + m) |-> IF i <= n THEN "fatal_expected" ELSE "fatal_other"] :
        n \in 0..MaxMessages, m \in 0..MaxMessages} \cap SeqsUpTo(FailureMessages, MaxMessages)

FailingRuns ==
    {ExitRun(rc, Recap(<<RecapLine(1, 1, 0, f, 0)>>), [restart_nginx |-> 1], msgs) :
        rc \in {0, 2}, f \in 0..MaxCount, msgs \in FailureLogs}

\* the weight declared by the k-th test case: none (0), one weight w for all
\* (1), or a weight rising with the position (2)
DeclaredBy(pattern, w, k) ==
    IF pattern = 0 THEN None
    ELSE IF pattern = 1 THEN Some(w)
    ELSE Some(k % (MaxWeight + 1))

\* every report of up to MaxTests test cases
TestReports ==
    LET Outcomes ==
            {"passed", "failed", "error", "skipped"}
    IN
    {[k \in DOMAIN os |-> [outcome |-> os[k], weight |-> DeclaredBy(pattern, w, k)]] :
        os \in SeqsUpTo(Outcomes, MaxTests), pattern \in 0..2, w \in 0..MaxWeight}

ReportRun(tests) == [kind |-> "report", tests |-> tests]

PassingTests == ReportRun(<<[outcome |-> "passed", weight |-> None]>>)
MixedTests == ReportRun(<<[outcome |-> "passed", weight |-> Some(1)],
                          [outcome |-> "failed", weight |-> Some(2)]>>)

TestRuns ==
    {[kind |-> "no_tests"], [kind |-> "timeout"],
     [kind |-> "no_report", returncode |-> 0], [kind |-> "no_report", returncode |-> 1]}
    \cup {ReportRun(ts) : ts \in TestReports}

\* one _run_phase call: the converge run, the nodes whose reboot fails, the test run
PhaseRun(converge, reboot_failing, tests) ==
    [converge |-> converge, reboot_failing |-> reboot_failing, tests |-> tests]

\* the outcomes of a phase in the runs of several phases
PlainRuns ==
    {PhaseRun(CleanConverge, {}, PassingTests),
     PhaseRun(CleanConverge, {}, MixedTests),
     PhaseRun(FailedConverge, {}, PassingTests),
     PhaseRun(CleanConverge, {}, [kind |-> "timeout"]),
     PhaseRun(TimedOutConverge, {}, PassingTests)}

FailurePolicies ==
    [allow_failures : BOOLEAN,
     max_failures : Opt({0, MaxCount}),
     expected_patterns : {None, Some(<<>>), Some(<<{"fatal_expected"}>>),
                          Some(<<{"fatal_other"}, {"fatal_expected"}>>)}]

PlainSpec ==
    HammerSpec(TwoNodeTopology, Some(<<VariableContract("http_port", 1, WebTarget)>>),
               Some(BindingBaseline),
               Some([NoOverlayData EXCEPT !.extra_vars = Some([http_port |-> 9090])]),
               None, None)

MutationPolicySpecs ==
    {[PlainSpec EXCEPT !.phase_overlays.mutation =
         Some([Get(@) EXCEPT !.failure_policy = Some(fp)])] : fp \in FailurePolicies}

BaselinePolicySpecs ==
    {[PlainSpec EXCEPT !.phase_overlays.baseline =
         Some([Get(@) EXCEPT !.failure_policy = Some(fp)])] :
            fp \in {f \in FailurePolicies :
                       f.max_failures = None /\ f.expected_patterns = None}}

RebootSpecs ==
    LET RebootConfigs ==
            [enabled : BOOLEAN, nodes : {None, Some(<<"app1">>)},
             timeout : {120}, poll_interval : {5}]
    IN
    {[PlainSpec EXCEPT !.phase_overlays.mutation =
         Some([Get(@) EXCEPT !.reboot = Some(rc)])] : rc \in RebootConfigs}

\* one variable, set in each phase through one of the four layers: to 8080 in
\* the baseline, to 9090 in the mutation
LayerSpecs ==
    LET Layers == {"inventory_vars", "group_vars", "host_vars", "extra_vars"}
        Via(layer, v) ==
            [NoOverlayData EXCEPT
                ![layer] = IF layer = "group_vars"
                           THEN Some(<<[name |-> "web", vars |-> [http_port |-> v]]>>)
                           ELSE IF layer = "host_vars"
                           THEN Some(<<[name |-> "web1", vars |-> [http_port |-> v]]>>)
                           ELSE Some([http_port |-> v])]
    IN {HammerSpec(TwoNodeTopology, Some(<<VariableContract("http_port", 1, WebTarget)>>),
                   Some(Via(lb, 8080)), Some(Via(lm, 9090)), None, None) :
           lb \in Layers, lm \in Layers}

\* a grading: the specification, the phases argument, one PhaseRun per phase to run
Grading(s, ps, e) == [spec |-> s, phases |-> ps, env |-> e]

Gradings ==
    LET SinglePhases ==
            {<<p>> : p \in Range(PhaseNames)}
    IN
    \* every list of up to MaxRuns phases, repetitions included, and the default
    UNION {{Grading(PlainSpec, Some(ps), e) : e \in [DOMAIN ps -> PlainRuns]} :
              ps \in SeqsUpTo(Range(PhaseNames), MaxRuns)}
    \cup {Grading(PlainSpec, None, e) :
             e \in [DOMAIN PhaseNames -> {PhaseRun(CleanConverge, {}, PassingTests),
                                          PhaseRun(CleanConverge, {}, MixedTests)}]}
    \* one idempotence run, every converge outcome
    \cup {Grading(PlainSpec, Some(<<"idempotence">>), <<PhaseRun(c, {}, PassingTests)>>) :
             c \in ConvergeRuns}
    \* one baseline run, every test outcome
    \cup {Grading(PlainSpec, Some(<<"baseline">>), <<PhaseRun(CleanConverge, {}, t)>>) :
             t \in TestRuns}
    \* a failure policy and a failing converge
    \cup {Grading(s, Some(<<p>>), <<PhaseRun(c, {}, PassingTests)>>) :
             s \in MutationPolicySpecs, p \in {"mutation", "idempotence"},
             c \in FailingRuns}
    \cup {Grading(s, Some(ps), <<PhaseRun(FailedConverge, {}, PassingTests)>>) :
             s \in BaselinePolicySpecs, ps \in SinglePhases}
    \* a failure policy and a converge that runs into its timeout
    \cup {Grading(s, Some(<<"mutation">>), <<PhaseRun(TimedOutConverge, {}, PassingTests)>>) :
             s \in MutationPolicySpecs}
    \* a reboot configuration
    \cup {Grading(s, Some(ps), <<PhaseRun(CleanConverge, f, PassingTests)>>) :
             s \in RebootSpecs, ps \in SinglePhases, f \in SUBSET {"web1", "app1"}}
    \* the layers of the overlays, in a run of the default phases and in single runs
    \cup {Grading(s, ps, [k \in 1..(IF IsNone(ps) THEN 3 ELSE 1) |->
                             PhaseRun(CleanConverge, {}, PassingTests)]) :
             s \in LayerSpecs, ps \in {None, Some(<<"mutation">>), Some(<<"idempotence">>)}}
    \* a reboot configuration in a run of the default phases
    \cup {Grading(s, None, e) :
             s \in {r \in RebootSpecs : Get(Get(r.phase_overlays.mutation).reboot).nodes = None},
             e \in [DOMAIN PhaseNames -> {PhaseRun(CleanConverge, {}, PassingTests),
                                          PhaseRun(FailedConverge, {"app1"}, MixedTests)}]}

\* the TestResults of the direct calls of calculate_phase_score
DirectTestResults ==
    {TestResult(1, 0, 0, 0, t, e, <<>>) : t \in 0..MaxWeight, e \in 0..MaxWeight}

----------------------------------------------------------------------------
(* runner/__init__.py: grade_assignment and _run_phase, one step per action *)

GradeReport == [phases |-> <<>>, total_score |-> 0, max_score |-> 0,
                percentage |-> Zero, success |-> TRUE]

\* the files written for a Dict[str, Dict]: <name>.yml for every entry whose dict
\* is not empty (`if group_data:`)
VarsFiles(d) ==
    [name \in {n \in Keys(d) : DOMAIN Lookup(d, n) # {}} |-> Lookup(d, name)]

\* (variant) only all.yml is written to the group_vars of an overlay
write_grading_phase_overlays_all_only(p) ==
    [phase_name \in {"baseline", "mutation"} |->
        [group_vars |-> "all" :> EmptyDict,
         host_vars |-> VarsFiles(p.variables[phase_name].host_vars),
         extra_vars |-> p.variables[phase_name].extra_vars]]

\* builder/inventory.py: overlays/<phase>/ of the grading bundle, for the
\* overlay phases baseline and mutation
write_grading_phase_overlays(p) ==
    [phase_name \in {"baseline", "mutation"} |->
        LET phase_vars == p.variables[phase_name]
        IN [group_vars |-> IF phase_vars.group_vars = <<>>
                           THEN "all" :> EmptyDict
                           ELSE VarsFiles(phase_vars.group_vars),
            host_vars |-> VarsFiles(phase_vars.host_vars),
            extra_vars |-> phase_vars.extra_vars]]

\* build_assignment: the grading bundle as _build_grading_bundle leaves it
GradingBundle(s, p) ==
    [group_vars |-> "all" :> EmptyDict,
     host_vars |-> [n \in {s.topology.nodes[i].name : i \in DOMAIN s.topology.nodes} |->
                       [ansible_host |-> n, ansible_user |-> "vagrant"]],
     overlays |-> write_grading_phase_overlays(p),
     results |-> {},
     calls |-> <<>>]

\* (variant) every phase reads the overlay of its own name, the baseline's if
\* there is none
PhaseOverlayOfOwnName(s, phase) ==
    IF phase \in DOMAIN s.phase_overlays THEN s.phase_overlays[phase]
    ELSE s.phase_overlays["baseline"]

\* getattr(spec.phase_overlays, overlay_phase_name, None)
PhaseOverlayOf(s, phase) ==
    LET overlay_phase_name == IF phase = "idempotence" THEN "mutation" ELSE phase
    IN IF overlay_phase_name \in DOMAIN s.phase_overlays
       THEN s.phase_overlays[overlay_phase_name] ELSE None

InitGrade ==
    /\ \E g \in Gradings :
          /\ spec = g.spec
          /\ phases = g.phases
          /\ env = g.env
    /\ pc = 1
    /\ plan = [variables |-> <<>>, contracts |-> <<>>, steps |-> <<>>]
    /\ sel = None
    /\ bind_tests = <<>>
    /\ gen = None
    /\ gi = 0
    /\ step = "call"
    /\ cur = None
    /\ report = None
    /\ runs = <<>>
    /\ score_call = None
    /\ rb = None
    /\ fs = NoFiles

\* grade_assignment up to the phase loop: default phases, the plan, the empty report
StartGrade ==
    /\ step = "call"
    /\ phases' = IF IsNone(phases) THEN Some(PhaseNames) ELSE phases
    /\ plan' = build_execution_plan(spec)
    /\ pc' = PlanDone
    /\ report' = Some(GradeReport)
    /\ gi' = 1
    /\ step' = IF Get(phases') = <<>> THEN "totals" ELSE "converge"
    /\ fs' = GradingBundle(spec, plan')
    /\ UNCHANGED <<spec, sel, bind_tests, gen, env, cur, runs, score_call, rb>>

\* _run_phase, step 1: the overlay's group_vars files are copied over the main
\* group_vars, run_playbook is called with the overlay's extra_vars file, the log
\* and the result are saved.  The playbook is given the inventory hosts.yml, which
\* is rendered without any variable of an overlay, the main group_vars and
\* host_vars directories and the extra_vars file.
RunConverge ==
    /\ step = "converge"
    /\ LET phase == Get(phases)[gi]
           overlay_phase == IF phase = "idempotence" THEN "mutation" ELSE phase
           main_group_vars == fs.overlays[overlay_phase].group_vars @@ fs.group_vars
       IN fs' = [fs EXCEPT
              !.group_vars = main_group_vars,
              !.calls = Append(@, [call |-> "converge", phase |-> phase,
                                   inventory_vars |-> EmptyDict,
                                   group_vars |-> main_group_vars,
                                   host_vars |-> fs.host_vars,
                                   extra_vars |-> fs.overlays[overlay_phase].extra_vars]),
              !.results = @ \cup {<<phase, "converge.log">>,
                                  <<phase, "converge_result.json">>}]
    /\ LET phase == Get(phases)[gi]
           played == run_playbook(env[gi].converge)
       IN cur' = Some([phase |-> phase,
                       overlay_phase |-> IF phase = "idempotence" THEN "mutation" ELSE phase,
                       converge_result |-> played.result,
                       converge_log |-> played.log,
                       failures_allowed |-> None,
                       reboot_results |-> None,
                       idempotence |-> None,
                       test_phase |-> None,
                       test_result |-> None])
    /\ step' = "policy"
    /\ UNCHANGED <<spec, planVars, phases, env, gi, report, runs, score_call, rb>>

\* (variant) the allowed failures are taken out of the result
AllowedResultCleared(r) ==
    ConvergeResult(r.ok, r.changed, 0, 0, r.skipped, r.rescued, r.ignored,
                   r.play_recap, r.handlers_run, TRUE, None)

\* _run_phase: the converge result built when the policy allows the failures
AllowedResult(r) ==
    ConvergeResult(r.ok, r.changed, r.failed, r.unreachable, r.skipped, r.rescued, r.ignored,
                   r.play_recap, r.handlers_run, TRUE, None)

\* _run_phase: the failure policy of the phase's overlay recodes the converge result
ApplyFailurePolicy ==
    /\ step = "policy"
    /\ LET c == Get(cur)
           phase_overlay == PhaseOverlayOf(spec, c.phase)
           configured == ~IsNone(phase_overlay) /\ ~IsNone(Get(phase_overlay).failure_policy)
           failures_allowed ==
               configured /\ _check_failure_policy(c.converge_result, c.converge_log,
                                                   Get(Get(phase_overlay).failure_policy))
       IN cur' = Some([c EXCEPT
              !.failures_allowed = IF configured THEN Some(failures_allowed) ELSE None,
              !.converge_result =
                  IF failures_allowed THEN AllowedResult(c.converge_result) ELSE @])
    /\ step' = "reboot"
    /\ UNCHANGED <<spec, planVars, phases, env, gi, report, runs, score_call, rb, fs>>

\* _run_phase: reboot_nodes when the overlay enables it; a failure is only recorded
RebootNodes ==
    /\ step = "reboot"
    /\ LET c == Get(cur)
           phase_overlay == PhaseOverlayOf(spec, c.phase)
           enabled == /\ ~IsNone(phase_overlay)
                      /\ ~IsNone(Get(phase_overlay).reboot)
                      /\ Get(Get(phase_overlay).reboot).enabled
           config == Get(Get(phase_overlay).reboot)
           nodes == IF IsNone(config.nodes)
                    THEN [i \in DOMAIN spec.topology.nodes |-> spec.topology.nodes[i].name]
                    ELSE Get(config.nodes)
           reboot_results ==
               [n \in Range(nodes) |-> [success |-> n \notin env[gi].reboot_failing]]
       IN /\ cur' = Some([c EXCEPT !.reboot_results =
                 IF enabled THEN Some(reboot_results) ELSE None])
          /\ fs' = IF ~enabled THEN fs
                   ELSE [fs EXCEPT
                      !.calls = Append(@, [call |-> "reboot", phase |-> c.phase,
                                           nodes |-> nodes, timeout |-> config.timeout,
                                           poll_interval |-> config.poll_interval]),
                      !.results = IF \E n \in Range(nodes) : ~reboot_results[n].success
                                  THEN @ \cup {<<c.phase, "reboot_failure.txt">>}
                                  ELSE @]
    /\ step' = "idempotence"
    /\ UNCHANGED <<spec, planVars, phases, env, gi, report, runs, score_call, rb>>

\* _run_phase: check_idempotence, in the idempotence phase only
CheckIdempotence ==
    /\ step = "idempotence"
    /\ LET c == Get(cur)
       IN cur' = Some([c EXCEPT !.idempotence =
              IF c.phase = "idempotence" THEN Some(check_idempotence(c.converge_result))
              ELSE None])
    /\ step' = "tests"
    /\ UNCHANGED <<spec, planVars, phases, env, gi, report, runs, score_call, rb, fs>>

\* (variant) the tests are left out after a converge that did not succeed
RunTestsAfterSuccessOnly ==
    /\ step = "tests"
    /\ LET c == Get(cur)
           ran == c.converge_result.success
       IN /\ cur' = Some([c EXCEPT
                 !.test_phase = Some(IF c.phase = "idempotence" THEN "mutation" ELSE c.phase),
                 !.test_result = Some(run_phase_tests(IF ran THEN env[gi].tests
                                                      ELSE [kind |-> "no_tests"]))])
          /\ fs' = IF ~ran THEN fs
                   ELSE [fs EXCEPT
                      !.calls = Append(@, [call |-> "tests", phase |-> c.phase,
                                           test_phase |-> Get(Get(cur').test_phase)]),
                      !.results = @ \cup {<<c.phase, "test.log">>,
                                          <<c.phase, "test_result.json">>}]
    /\ step' = "score"
    /\ UNCHANGED <<spec, planVars, phases, env, gi, report, runs, score_call, rb>>

\* _run_phase, step 2: run_phase_tests
RunTests ==
    /\ step = "tests"
    /\ LET c == Get(cur)
       IN cur' = Some([c EXCEPT
              !.test_phase = Some(IF c.phase = "idempotence" THEN "mutation" ELSE c.phase),
              !.test_result = Some(run_phase_tests(env[gi].tests))])
    /\ LET phase == Get(cur).phase
       IN fs' = [fs EXCEPT
              !.calls = Append(@, [call |-> "tests", phase |-> phase,
                                   test_phase |-> IF phase = "idempotence" THEN "mutation"
                                                  ELSE phase]),
              !.results = @ \cup {<<phase, "test.log">>, <<phase, "test_result.json">>}]
    /\ step' = "score"
    /\ UNCHANGED <<spec, planVars, phases, env, gi, report, runs, score_call, rb>>

\* (variant) a run that is not idempotent earns nothing in the idempotence phase
ScorePhaseByVerdict ==
    /\ step = "score"
    /\ LET c == Get(cur)
           scored == calculate_phase_score(Get(c.test_result))
           verdict == IsNone(c.idempotence) \/ Get(c.idempotence).idempotent
           phase_result == [phase |-> c.phase, converge |-> c.converge_result,
                            tests |-> Get(c.test_result),
                            score |-> IF verdict THEN scored.earned ELSE 0,
                            max_score |-> scored.max]
           others == DOMAIN Get(report).phases \ {c.phase}
       IN /\ report' = Some([Get(report) EXCEPT !.phases =
                 [p \in others \cup {c.phase} |->
                     IF p = c.phase THEN phase_result ELSE Get(report).phases[p]]])
          /\ runs' = Append(runs, phase_result)
    /\ cur' = None
    /\ gi' = gi + 1
    /\ step' = IF gi = Len(Get(phases)) THEN "totals" ELSE "converge"
    /\ UNCHANGED <<spec, planVars, phases, env, score_call, rb, fs>>

\* _run_phase returns its PhaseResult; grade_assignment stores it under the phase name
ScorePhase ==
    /\ step = "score"
    /\ LET c == Get(cur)
           scored == calculate_phase_score(Get(c.test_result))
           phase_result == [phase |-> c.phase, converge |-> c.converge_result,
                            tests |-> Get(c.test_result),
                            score |-> scored.earned, max_score |-> scored.max]
           others == DOMAIN Get(report).phases \ {c.phase}
       IN /\ report' = Some([Get(report) EXCEPT !.phases =
                 [p \in others \cup {c.phase} |->
                     IF p = c.phase THEN phase_result ELSE Get(report).phases[p]]])
          /\ runs' = Append(runs, phase_result)
    /\ cur' = None
    /\ gi' = gi + 1
    /\ step' = IF gi = Len(Get(phases)) THEN "totals" ELSE "converge"
    /\ UNCHANGED <<spec, planVars, phases, env, score_call, rb, fs>>

\* grade_assignment after the loop: the totals, the success flag, the written report
Finalize ==
    /\ step = "totals"
    /\ LET total == calculate_total_score(Get(report).phases)
       IN report' = Some([Get(report) EXCEPT
              !.total_score = total.earned,
              !.max_score = total.max,
              !.percentage = total.percentage,
              !.success = report_success(Get(report).phases)])
    /\ fs' = [fs EXCEPT !.results = @ \cup {<<"report.json">>, <<"summary.txt">>}]
    /\ step' = "done"
    /\ UNCHANGED <<spec, planVars, phases, env, gi, cur, runs, score_call, rb>>

\* an exception in a step of _run_phase (an OSError of a write_text or of
\* shutil.copy2, the re.error of an expected_patterns entry that is no regular
\* expression): nothing in _run_phase or grade_assignment catches it, _cmd_grade
\* prints it and exits with status 1
RaiseFault ==
    /\ step \in {"converge", "policy", "reboot", "tests"}
    /\ step' = "raised"
    /\ UNCHANGED <<spec, planVars, phases, env, gi, cur, report, runs, score_call, rb, fs>>

\* a direct call of calculate_phase_score on a TestResult
DirectPhaseScore ==
    /\ step = "done"
    /\ score_call = None
    /\ \E t \in DirectTestResults :
          score_call' = Some([tests |-> t, score |-> calculate_phase_score(t)])
    /\ UNCHANGED <<spec, planVars, phases, env, gi, step, cur, report, runs, rb, fs>>

NextGrade ==
    \/ StartGrade
    \/ RunConverge
    \/ ApplyFailurePolicy
    \/ RebootNodes
    \/ CheckIdempotence
    \/ RunTests
    \/ ScorePhase
    \/ Finalize
    \/ RaiseFault
    \/ DirectPhaseScore

SpecGrade == InitGrade /\ [][NextGrade]_vars

----------------------------------------------------------------------------
(* runner/reboot.py: reboot_nodes and _reboot_single_node, one probe per     *)
(* action.  rb holds the arguments (nodes, timeout, poll_interval) and the  *)
(* local variables: i, the index of the node being rebooted; at, the        *)
(* position in _reboot_single_node ("send", "down" for the first wait, "up" *)
(* for the second); probes, the iterations of the first wait's loop;        *)
(* clock, time.time() - start_time in seconds (start_time is taken when the *)
(* command is sent); results, the dict returned; and, for the properties,   *)
(* seen: what the probes of the node observed.                              *)

\* range(30): the iterations of the first wait
DownProbes == 30

RebootResult(success, duration, error) ==
    [success |-> success, duration |-> duration, error |-> error]

NothingSeen == [down_probes |-> 0, down |-> FALSE, up_probes |-> 0, up |-> FALSE]

\* (variant) reboot_nodes gives up at the first node that fails
ReturnAndStop(r, result) ==
    [r EXCEPT !.results = (r.nodes[r.i] :> result) @@ @,
              !.observed = (r.nodes[r.i] :> r.seen) @@ @,
              !.i = @ + 1,
              !.at = IF r.i = Len(r.nodes) \/ ~result.success THEN "done" ELSE "send",
              !.probes = 0, !.seen = NothingSeen]

\* _reboot_single_node returns: results[node] = ..., and the loop of reboot_nodes
\* goes on to the next node
Return(r, result) ==
    [r EXCEPT !.results = (r.nodes[r.i] :> result) @@ @,
              !.observed = (r.nodes[r.i] :> r.seen) @@ @,
              !.i = @ + 1,
              !.at = IF r.i = Len(r.nodes) THEN "done" ELSE "send",
              !.probes = 0, !.seen = NothingSeen]

\* (variant) the second wait is entered whether or not the node went down
DownWaitUnchecked(r, available, took) ==
    LET now == r.clock + took + (IF available THEN 1 ELSE 0)
        probed == [r EXCEPT !.seen.down_probes = @ + 1, !.seen.down = ~available]
    IN IF ~available \/ r.probes + 1 = DownProbes
       THEN IF now < r.timeout
            THEN [probed EXCEPT !.at = "up", !.clock = now]
            ELSE Return([probed EXCEPT !.clock = now],
                        RebootResult(FALSE, r.timeout,
                            Some([text |-> "SSH did not become available within {timeout}s",
                                  timeout |-> r.timeout])))
       ELSE [probed EXCEPT !.probes = @ + 1, !.clock = now]

\* one iteration of the first wait; the probe took `took` seconds
DownWait(r, available, took) ==
    LET probed == [r EXCEPT !.seen.down_probes = @ + 1, !.seen.down = ~available]
    IN IF ~available
       THEN \* ssh_went_down = True; break; elapsed = time.time() - start_time
            LET elapsed == r.clock + took
            IN IF elapsed < r.timeout
               THEN [probed EXCEPT !.at = "up", !.clock = elapsed]
               ELSE Return([probed EXCEPT !.clock = elapsed],
                        RebootResult(FALSE, r.timeout,
                            Some([text |-> "SSH did not become available within {timeout}s",
                                  timeout |-> r.timeout])))
       ELSE \* time.sleep(1)
            LET now == r.clock + took + 1
            IN IF r.probes + 1 < DownProbes
               THEN [probed EXCEPT !.probes = @ + 1, !.clock = now]
               ELSE Return([probed EXCEPT !.clock = now], RebootResult(FALSE, now,
                        Some([text |-> "SSH never went down on {node} - reboot may not have initiated",
                              node |-> r.nodes[r.i]])))

\* (variant) sleeps and looks at the clock before it looks at the probe's answer
UpWaitSleepFirst(r, available, took) ==
    LET probed == [r EXCEPT !.seen.up_probes = @ + 1, !.seen.up = available]
        elapsed == r.clock + took + r.poll_interval
    IN IF elapsed >= r.timeout
       THEN Return([probed EXCEPT !.clock = elapsed],
                RebootResult(FALSE, r.timeout,
                    Some([text |-> "SSH did not become available within {timeout}s",
                          timeout |-> r.timeout])))
       ELSE IF available
       THEN Return([probed EXCEPT !.clock = elapsed], RebootResult(TRUE, elapsed, None))
       ELSE [probed EXCEPT !.clock = elapsed]

\* one iteration of the second wait (entered with elapsed < timeout)
UpWait(r, available, took) ==
    LET probed == [r EXCEPT !.seen.up_probes = @ + 1, !.seen.up = available]
    IN IF available
       THEN Return([probed EXCEPT !.clock = r.clock + took],
                RebootResult(TRUE, r.clock + took, None))
       ELSE \* time.sleep(poll_interval); elapsed = time.time() - start_time
            LET elapsed == r.clock + took + r.poll_interval
            IN IF elapsed < r.timeout
               THEN [probed EXCEPT !.clock = elapsed]
               ELSE Return([probed EXCEPT !.clock = elapsed],
                        RebootResult(FALSE, r.timeout,
                            Some([text |-> "SSH did not become available within {timeout}s",
                                  timeout |-> r.timeout])))

\* the calls: node lists (one with a node twice, as an inventory that lists a host
\* in two groups gives), timeouts and poll intervals within RebootConfig's limits;
\* the calls with two nodes use the shortest timeout
RebootCalls ==
    LET arguments ==
            {c \in {<<>>, <<"web1">>, <<"web1", "app1">>, <<"app1", "app1">>}
                    \X {30, 60} \X {5, 30} :
                Len(c[1]) = 2 => c[2] = 30 /\ c[3] = 5}
    IN {[nodes |-> c[1], timeout |-> c[2], poll_interval |-> c[3],
         i |-> 1, at |-> IF c[1] = <<>> THEN "done" ELSE "send",
         probes |-> 0, clock |-> 0, seen |-> NothingSeen,
         results |-> <<>>, observed |-> <<>>] : c \in arguments}

InitReboot ==
    /\ rb \in {Some(r) : r \in RebootCalls}
    /\ spec = PlainSpec
    /\ pc = 1
    /\ plan = [variables |-> <<>>, contracts |-> <<>>, steps |-> <<>>]
    /\ sel = None
    /\ bind_tests = <<>>
    /\ gen = None
    /\ phases = None
    /\ env = <<>>
    /\ gi = 0
    /\ step = "idle"
    /\ cur = None
    /\ report = None
    /\ runs = <<>>
    /\ score_call = None
    /\ fs = NoFiles

\* the ansible command that sends the reboot: it returns, runs into its 30 second
\* timeout (which is expected), or cannot be run
SendReboot ==
    /\ ~IsNone(rb)
    /\ Get(rb).at = "send"
    /\ \E outcome \in {"returned", "timeout", "exception"} :
          LET r == [Get(rb) EXCEPT !.clock = IF outcome = "timeout" THEN 30 ELSE 0]
          IN rb' = Some(IF outcome = "exception"
                        THEN Return(r, RebootResult(FALSE, r.clock,
                                 Some([text |-> "Failed to send reboot command: {e}"])))
                        ELSE [r EXCEPT !.at = "down"])
    /\ UNCHANGED <<spec, planVars, phases, env, gi, step, cur, report, runs, score_call, fs>>

\* _check_ssh_available returns true at once, or false at once or when its
\* 10 second timeout expires
ProbeDown ==
    /\ ~IsNone(rb)
    /\ Get(rb).at = "down"
    /\ \E available \in BOOLEAN, took \in {0, 10} :
          /\ available => took = 0
          /\ rb' = Some(DownWait(Get(rb), available, took))
    /\ UNCHANGED <<spec, planVars, phases, env, gi, step, cur, report, runs, score_call, fs>>

ProbeUp ==
    /\ ~IsNone(rb)
    /\ Get(rb).at = "up"
    /\ \E available \in BOOLEAN, took \in {0, 10} :
          /\ available => took = 0
          /\ rb' = Some(UpWait(Get(rb), available, took))
    /\ UNCHANGED <<spec, planVars, phases, env, gi, step, cur, report, runs, score_call, fs>>

NextReboot == SendReboot \/ ProbeDown \/ ProbeUp

\* the clock advances and every probe returns: a step that can be taken is taken
SpecReboot == InitReboot /\ [][NextReboot]_vars /\ WF_vars(NextReboot)

NeverWentDownText == "SSH never went down on {node} - reboot may not have initiated"

TimeoutText == "SSH did not become available within {timeout}s"

\* the first wait of node n ran through all its probes and every one reached the node
NeverWentDown(r, n) ==
    /\ r.observed[n].down_probes = DownProbes
    /\ ~r.observed[n].down

\* C18: a node that all 30 probes of the first wait reached gets a failed result
\* with the "reboot may not have initiated" error, not the timeout error, and no
\* probe of the second wait; the first wait does not give up before its 30th
\* probe; the second wait is entered, and success reported, only after a probe
\* that did not reach the node.
FirstWaitFailure ==
    ~IsNone(rb) =>
        LET r == Get(rb)
        IN /\ \A n \in DOMAIN r.results :
                /\ NeverWentDown(r, n) =>
                      /\ ~r.results[n].success
                      /\ Get(r.results[n].error).text = NeverWentDownText
                      /\ Get(r.results[n].error).text # TimeoutText
                      /\ Get(r.results[n].error).node = n
                      /\ r.observed[n].up_probes = 0
                /\ (r.observed[n].down_probes > 0 /\ ~r.observed[n].down) =>
                      r.observed[n].down_probes = DownProbes
                /\ r.results[n].success => r.observed[n].down
                /\ r.observed[n].up_probes > 0 => r.observed[n].down
           /\ r.at = "up" => r.seen.down
           /\ r.seen.up_probes > 0 => r.seen.down
           /\ r.seen.down_probes <= DownProbes

\* the second node of a call never went down, after the first one rebooted
FirstWaitFailureWitness ==
    /\ ~IsNone(rb)
    /\ Get(rb).at = "done"
    /\ Get(rb).nodes = <<"web1", "app1">>
    /\ Get(rb).results["web1"].success
    /\ NeverWentDown(Get(rb), "app1")
    /\ ~Get(rb).results["app1"].success

----------------------------------------------------------------------------
(* Properties of variable resolution *)

DeclaredVariables == OptList(spec.variable_contracts)

\* the overlay of the specification that belongs to an execution phase
OverlayOfPhase(p) ==
    IF p = "baseline" THEN spec.phase_overlays.baseline ELSE spec.phase_overlays.mutation

\* the values the entries of one layer of overlay o give to variable v
LayerValues(o, layer, v) ==
    CASE layer = "extra_vars" ->
            IF ~IsNone(o.extra_vars) /\ v \in DOMAIN Get(o.extra_vars)
            THEN {Get(o.extra_vars)[v]} ELSE {}
      [] layer = "host_vars" ->
            {e.vars[v] : e \in {e \in Range(OptList(o.host_vars)) : v \in DOMAIN e.vars}}
      [] layer = "group_vars" ->
            {e.vars[v] : e \in {e \in Range(OptList(o.group_vars)) : v \in DOMAIN e.vars}}
      [] layer = "inventory_vars" ->
            IF ~IsNone(o.inventory_vars) /\ v \in DOMAIN Get(o.inventory_vars)
            THEN {Get(o.inventory_vars)[v]} ELSE {}

\* highest precedence first
LayerOrder == <<"extra_vars", "host_vars", "group_vars", "inventory_vars">>

SetLayers(o, v) == {i \in DOMAIN LayerOrder : LayerValues(o, LayerOrder[i], v) # {}}

\* C1 (precedence law): in every phase whose variable plan has been built, every
\* declared variable carries the source tag of the highest-precedence layer of the
\* phase's overlay that sets it (extra_vars > host_vars > group_vars >
\* inventory_vars) and a value that layer gives it; with no layer setting it, the
\* student default with source "default".
PrecedenceLaw ==
    \A p \in DOMAIN plan.variables :
        \A i \in DOMAIN DeclaredVariables :
            LET var == DeclaredVariables[i]
                r == plan.variables[p].resolved[var.name]
                o == OverlayOfPhase(p)
                set == IF IsNone(o) THEN {} ELSE SetLayers(Get(o), var.name)
            IN IF set = {}
               THEN r.source = "default" /\ r.value = var.defaults.student
               ELSE LET top == LayerOrder[CHOOSE k \in set : \A j \in set : k <= j]
                    IN r.source = top /\ r.value \in LayerValues(Get(o), top, var.name)

\* a variable set in all four layers of the baseline overlay has been resolved
PrecedenceLawWitness ==
    /\ "baseline" \in DOMAIN plan.variables
    /\ ~IsNone(spec.phase_overlays.baseline)
    /\ SetLayers(Get(spec.phase_overlays.baseline), "http_port") = {1, 2, 3, 4}
    /\ Get(Get(spec.phase_overlays.baseline).extra_vars).http_port
           # Lookup(Get(Get(spec.phase_overlays.baseline).host_vars), "web1").http_port
    /\ plan.variables.baseline.resolved.http_port.source = "extra_vars"

\* C2 (idempotence phase reuse): once the idempotence phase is resolved, every
\* variable has the value and source it has in the mutation phase, and the overlay
\* maps of the idempotence plan are those of the mutation overlay.
IdempotenceReusesMutation ==
    "idempotence" \in DOMAIN plan.variables =>
        LET idem == plan.variables.idempotence
            mut == plan.variables.mutation
            o == spec.phase_overlays.mutation
        IN /\ \A v \in DOMAIN idem.resolved :
                 /\ idem.resolved[v].value = mut.resolved[v].value
                 /\ idem.resolved[v].source = mut.resolved[v].source
           /\ idem.inventory_vars = (IF IsNone(o) THEN EmptyDict ELSE OptDict(Get(o).inventory_vars))
           /\ idem.group_vars = (IF IsNone(o) THEN <<>> ELSE OptList(Get(o).group_vars))
           /\ idem.host_vars = (IF IsNone(o) THEN <<>> ELSE OptList(Get(o).host_vars))
           /\ idem.extra_vars = (IF IsNone(o) THEN EmptyDict ELSE OptDict(Get(o).extra_vars))

\* the idempotence phase is resolved, with a mutation overlay, to something else
\* than what the baseline phase resolved
IdempotenceReusesMutationWitness ==
    /\ "idempotence" \in DOMAIN plan.variables
    /\ ~IsNone(spec.phase_overlays.mutation)
    /\ "http_port" \in DOMAIN plan.variables.idempotence.resolved
    /\ plan.variables.idempotence.resolved.http_port.source = "extra_vars"
    /\ plan.variables.baseline.resolved.http_port.source = "group_vars"
    /\ plan.variables.idempotence.resolved.http_port.value
           # plan.variables.baseline.resolved.http_port.value

\* the entries of dictionary d that set variable v
Setters(d, v) == {e \in Range(d) : v \in DOMAIN e.vars}

\* the entry of the greatest name among a non-empty set of entries
GreatestEntry(es) == CHOOSE e \in es : \A f \in es : f = e \/ StrLT(f.name, e.name)

\* C10 (lexicographic tie-break): a variable resolved from group_vars has the value
\* of the greatest group name that sets it, whatever the insertion order of the
\* groups; a variable resolved from host_vars has the value of the greatest host
\* name that sets it.
LexicographicTieBreak ==
    \A p \in DOMAIN plan.variables :
        \A i \in DOMAIN DeclaredVariables :
            LET v == DeclaredVariables[i].name
                r == plan.variables[p].resolved[v]
                o == OverlayOfPhase(p)
            IN /\ (~IsNone(o) /\ LayerValues(Get(o), "extra_vars", v) = {}
                     /\ Setters(OptList(Get(o).host_vars), v) # {})
                   => r.value = GreatestEntry(Setters(OptList(Get(o).host_vars), v)).vars[v]
               /\ (~IsNone(o) /\ LayerValues(Get(o), "extra_vars", v) = {}
                     /\ Setters(OptList(Get(o).host_vars), v) = {}
                     /\ Setters(OptList(Get(o).group_vars), v) # {})
                   => r.value = GreatestEntry(Setters(OptList(Get(o).group_vars), v)).vars[v]

\* two groups set the variable to different values, the greater name inserted first
LexicographicTieBreakWitness ==
    /\ "baseline" \in DOMAIN plan.variables
    /\ ~IsNone(spec.phase_overlays.baseline)
    /\ LET gv == OptList(Get(spec.phase_overlays.baseline).group_vars)
       IN /\ Len(gv) = 2
          /\ StrLT(gv[2].name, gv[1].name)
          /\ "http_port" \in DOMAIN gv[1].vars
          /\ "http_port" \in DOMAIN gv[2].vars
          /\ gv[1].vars.http_port # gv[2].vars.http_port
          /\ plan.variables.baseline.resolved.http_port.source = "group_vars"
          /\ plan.variables.baseline.resolved.http_port.value = gv[1].vars.http_port

----------------------------------------------------------------------------
(* Properties of contract expansion *)

\* the contracts the specification declares in one behavioral category
DeclaredContracts(cat) ==
    IF IsNone(spec.behavioral_contracts) THEN <<>>
    ELSE OptList(Get(spec.behavioral_contracts)[cat])

\* C3 (phase filtering): in every category and every phase whose contract plan has
\* been built, the checks of the plan are, in order, the contracts whose phases
\* list is None or contains the phase (contracts of one category are told apart by
\* their weight).
PhaseFiltering ==
    \A p \in DOMAIN plan.contracts :
        \A cat \in Range(Categories) :
            LET applicable == SelectSeq(DeclaredContracts(cat),
                                  LAMBDA c : IsNone(c.phases) \/ p \in Range(Get(c.phases)))
                checks == plan.contracts[p][cat]
            IN /\ Len(checks) = Len(applicable)
               /\ \A k \in DOMAIN checks : checks[k].weight = applicable[k].weight

\* a contract with phases = [mutation, idempotence], preceded by a baseline-only
\* one, is in the plans of exactly those two phases
PhaseFilteringWitness ==
    /\ DOMAIN plan.contracts = {"baseline", "mutation", "idempotence"}
    /\ LET cs == DeclaredContracts("output_checks")
       IN /\ Len(cs) = 2
          /\ cs[1].phases = Some(<<"baseline">>)
          /\ cs[2].phases = Some(<<"mutation", "idempotence">>)
          /\ Len(plan.contracts.baseline.output_checks) = 1
          /\ plan.contracts.baseline.output_checks[1].weight = cs[1].weight
          /\ Len(plan.contracts.mutation.output_checks) = 1
          /\ plan.contracts.mutation.output_checks[1].weight = cs[2].weight
          /\ plan.contracts.idempotence.output_checks = plan.contracts.mutation.output_checks

\* C4 (binding index integrity): in every phase a variable with N binding targets
\* has exactly N binding checks in the plan, in declaration order, tagged 0..N-1,
\* each expecting the phase's resolved value; and on every host the variable is
\* tested on there are exactly N tests, one per binding target, expecting that value.
BindingIndexIntegrity ==
    /\ \A p \in DOMAIN plan.contracts :
          \A i \in DOMAIN DeclaredVariables :
              LET var == DeclaredVariables[i]
                  N == Len(var.binding_targets)
                  mine == SelectSeq(plan.contracts[p].bindings,
                                    LAMBDA b : b.variable = var.name)
              IN /\ Len(mine) = N
                 /\ \A k \in 1..Len(mine) :
                       /\ mine[k].binding_index = k - 1
                       /\ mine[k].binding_type = var.binding_targets[k].type
                       /\ mine[k].binding_target = var.binding_targets[k].target
                       /\ mine[k].expected_value = plan.variables[p].resolved[var.name].value
    /\ \A p \in DOMAIN bind_tests :
          \A i \in DOMAIN DeclaredVariables :
              LET var == DeclaredVariables[i]
                  N == Len(var.binding_targets)
                  tested == {bind_tests[p][t].host : t \in {t \in DOMAIN bind_tests[p] :
                                bind_tests[p][t].variable = var.name}}
              IN /\ N > 0 => tested # {}
                 /\ \A h \in tested :
                       LET mine == SelectSeq(bind_tests[p],
                                       LAMBDA t : t.variable = var.name /\ t.host = h)
                       IN /\ Len(mine) = N
                          /\ \A k \in 1..Len(mine) :
                                /\ mine[k].binding_type = var.binding_targets[k].type
                                /\ mine[k].weight = var.binding_targets[k].weight
                                /\ mine[k].expected_value =
                                       plan.variables[p].resolved[var.name].value

\* a variable with two binding targets, tested on two hosts, in the mutation phase
\* where its value differs from the baseline one
BindingIndexIntegrityWitness ==
    /\ "mutation" \in DOMAIN bind_tests
    /\ \E i \in DOMAIN DeclaredVariables :
          /\ DeclaredVariables[i].name = "http_port"
          /\ Len(DeclaredVariables[i].binding_targets) = 2
    /\ LET mine == SelectSeq(plan.contracts.mutation.bindings,
                             LAMBDA b : b.variable = "http_port")
       IN /\ Len(mine) = 2
          /\ mine[2].binding_index = 1
          /\ mine[2].expected_value = 9090
    /\ plan.variables.baseline.resolved.http_port.value = 8080
    /\ Cardinality({t \in DOMAIN bind_tests.mutation :
                       bind_tests.mutation[t].variable = "http_port"}) = 4

\* the position of a node name in the topology's node list
NodeIndex(name) ==
    CHOOSE i \in DOMAIN spec.topology.nodes : spec.topology.nodes[i].name = name

\* C9 (selector resolution): a host selector resolves to exactly that host; a group
\* selector to all and only the nodes whose group list contains the group, each
\* once, in declaration order; a selector with neither field, or a group without
\* members, to the empty list.
SelectorResolution ==
    ~IsNone(sel) =>
        LET s == Get(sel).selector
            hosts == Get(sel).hosts
            nodes == spec.topology.nodes
        IN IF ~IsNone(s.host) THEN hosts = <<Get(s.host)>>
           ELSE IF IsNone(s.group) THEN hosts = <<>>
           ELSE /\ Range(hosts) = {nodes[i].name : i \in {i \in DOMAIN nodes :
                                      Get(s.group) \in Range(nodes[i].groups)}}
                /\ \A a, b \in DOMAIN hosts :
                      a < b => NodeIndex(hosts[a]) < NodeIndex(hosts[b])

\* group "web" is resolved to two members declared in descending name order, the
\* first of which lists the group twice
SelectorResolutionWitness ==
    /\ ~IsNone(sel)
    /\ Get(sel).selector = [host |-> None, group |-> Some("web")]
    /\ Len(spec.topology.nodes) = 2
    /\ spec.topology.nodes[1].name = "web1"
    /\ spec.topology.nodes[1].groups = <<"web", "web">>
    /\ spec.topology.nodes[2].name = "app1"
    /\ spec.topology.nodes[2].groups = <<"web", "app">>
    /\ Get(sel).hosts = <<"web1", "app1">>

----------------------------------------------------------------------------
(* Properties of the grading pipeline *)

RECURSIVE SumFn(_)
\* the sum of the values of a function with a finite domain
SumFn(f) ==
    IF DOMAIN f = {} THEN 0
    ELSE LET x == CHOOSE y \in DOMAIN f : TRUE
         IN f[x] + SumFn([y \in DOMAIN f \ {x} |-> f[y]])

\* the result _run_phase returned for the last run of phase p
LastRun(p) ==
    runs[CHOOSE i \in DOMAIN runs :
            /\ Get(phases)[i] = p
            /\ \A j \in DOMAIN runs : Get(phases)[j] = p => j <= i]

CleanRun(r) == r.converge.success /\ r.tests.failed = 0 /\ r.tests.errors = 0

DeclaredWeight(test) == IF test.weight = None THEN 1 ELSE test.weight[1]

\* the test cases the harness reported in the i-th phase run
ReportedTests(i) ==
    IF env[i].tests.kind = "report" THEN env[i].tests.tests ELSE <<>>

\* C6: the score of a phase is (0, 0) whenever the total weight of its test result
\* is 0, whatever its earned weight; otherwise the earned score is the sum of the
\* weights of the passed tests and the maximum is the sum of the weights of all
\* tests of the phase.
PhaseScore ==
    /\ \A i \in DOMAIN runs :
          LET r == runs[i]
              ts == ReportedTests(i)
              passed == {k \in DOMAIN ts : ts[k].outcome = "passed"}
          IN IF r.tests.total_weight = 0
             THEN r.score = 0 /\ r.max_score = 0
             ELSE /\ r.score = SumFn([k \in passed |-> DeclaredWeight(ts[k])])
                  /\ r.max_score = SumFn([k \in DOMAIN ts |-> DeclaredWeight(ts[k])])
    /\ ~IsNone(score_call) =>
          LET c == Get(score_call)
          IN IF c.tests.total_weight = 0
             THEN c.score = [earned |-> 0, max |-> 0]
             ELSE c.score = [earned |-> c.tests.earned_weight,
                             max |-> c.tests.total_weight]

\* a phase whose passed and failed tests both carry weight was scored, and
\* calculate_phase_score was called with a zero total and a non-zero earned weight
PhaseScoreWitness ==
    /\ \E i \in DOMAIN runs :
          /\ runs[i].tests.failed > 0
          /\ 0 < runs[i].score
          /\ runs[i].score < runs[i].max_score
    /\ ~IsNone(score_call)
    /\ Get(score_call).tests.total_weight = 0
    /\ Get(score_call).tests.earned_weight > 0
    /\ Get(score_call).score = [earned |-> 0, max |-> 0]

\* C7: the totals of the report are the sums of the scores and of the maximum
\* scores of exactly the phases that were run, the percentage is
\* 100 * earned / max, and it is 0 when the summed maximum is 0.
TotalScore ==
    step = "done" =>
        LET r == Get(report)
        IN /\ DOMAIN r.phases = Range(Get(phases))
           /\ r.total_score = SumFn([p \in DOMAIN r.phases |-> r.phases[p].score])
           /\ r.max_score = SumFn([p \in DOMAIN r.phases |-> r.phases[p].max_score])
           /\ IF r.max_score = 0
              THEN r.percentage.num = 0 /\ r.percentage.den # 0
              ELSE /\ r.percentage.den # 0
                   /\ r.percentage.num * r.max_score = 100 * r.total_score * r.percentage.den

\* two phases with different scores were run and part of the maximum was earned
TotalScoreWitness ==
    /\ step = "done"
    /\ \E p, q \in DOMAIN Get(report).phases :
          /\ p # q
          /\ Get(report).phases[p].score # Get(report).phases[q].max_score
          /\ Get(report).phases[p].max_score > 0
          /\ Get(report).phases[q].max_score > 0
    /\ 0 < Get(report).total_score
    /\ Get(report).total_score < Get(report).max_score

\* C8: check_idempotence answers for every converge result; its verdict is True if
\* and only if success is true, failed = 0, unreachable = 0 and changed = 0, and a
\* False verdict comes with a message naming a condition that is violated.
IdempotenceCheck ==
    /\ (step \in {"tests", "score"} /\ Get(cur).phase = "idempotence") =>
          ~IsNone(Get(cur).idempotence)
    /\ (~IsNone(cur) /\ ~IsNone(Get(cur).idempotence)) =>
          LET r == Get(cur).converge_result
              v == Get(Get(cur).idempotence)
          IN /\ v.idempotent <=>
                   (r.success /\ r.failed = 0 /\ r.unreachable = 0 /\ r.changed = 0)
             /\ v.idempotent => v.message = "Playbook is idempotent"
             /\ ~v.idempotent =>
                   \/ v.message = "Playbook failed" /\ ~r.success
                   \/ v.message = "failed tasks" /\ r.failed > 0 /\ v.count = r.failed
                   \/ /\ v.message = "unreachable hosts"
                      /\ r.unreachable > 0 /\ v.count = r.unreachable
                   \/ v.message = "changed tasks" /\ r.changed > 0 /\ v.count = r.changed

\* a successful converge of the idempotence phase that changed tasks on two hosts
IdempotenceCheckWitness ==
    /\ ~IsNone(cur)
    /\ ~IsNone(Get(cur).idempotence)
    /\ Get(cur).converge_result.success
    /\ Get(cur).converge_result.failed = 0
    /\ Get(cur).converge_result.unreachable = 0
    /\ Get(cur).converge_result.changed > 1
    /\ ~Get(Get(cur).idempotence).idempotent
    /\ Get(Get(cur).idempotence).message = "changed tasks"


----------------------------------------------------------------------------
(* Properties of the generated binding tests *)

\* the hosts a variable contract is to be tested on, by specificity of its targets
TargetedHosts(var) ==
    LET targets == var.grading_overlay_targets
        nodes == spec.topology.nodes
        of(kind) == {targets[t].target_name : t \in {t \in DOMAIN targets :
                        targets[t].overlay_kind = kind}}
        members == {nodes[n].name : n \in {n \in DOMAIN nodes :
                       of("group_vars") \cap Range(nodes[n].groups) # {}}}
    IN IF of("host_vars") # {} THEN of("host_vars")
       ELSE IF members # {} THEN members
       ELSE IF of("inventory_vars") \cup of("extra_vars") # {}
       THEN {nodes[n].name : n \in DOMAIN nodes}
       ELSE {nodes[1].name}

\* C11: in every phase, the hosts a variable's bindings are tested on are exactly
\* the hosts of the most specific level of its overlay targets: the host_vars
\* targets if there are any, else the members of the group_vars targets if there
\* are any, else all nodes if there is an inventory_vars or extra_vars target,
\* else the first node of the topology; and every binding of the variable is
\* tested on each of these hosts.
BindingHostTargeting ==
    \A p \in DOMAIN bind_tests :
        \A i \in DOMAIN DeclaredVariables :
            LET var == DeclaredVariables[i]
                mine == SelectSeq(bind_tests[p], LAMBDA t : t.variable = var.name)
            IN /\ {mine[t].host : t \in DOMAIN mine} =
                      IF var.binding_targets = <<>> THEN {} ELSE TargetedHosts(var)
               /\ Len(mine) = Len(var.binding_targets) * Cardinality(TargetedHosts(var))

\* a variable with an extra_vars and a group_vars target is tested on the member of
\* the group only, although the topology has a second node
BindingHostTargetingWitness ==
    /\ "baseline" \in DOMAIN bind_tests
    /\ Len(spec.topology.nodes) = 2
    /\ \E i \in DOMAIN DeclaredVariables :
          LET var == DeclaredVariables[i]
          IN /\ var.grading_overlay_targets =
                    <<[overlay_kind |-> "extra_vars", target_name |-> "all"],
                      [overlay_kind |-> "group_vars", target_name |-> "web"]>>
             /\ Len(var.binding_targets) = 2
             /\ {t.host : t \in {bind_tests.baseline[k] : k \in {k \in DOMAIN bind_tests.baseline :
                    bind_tests.baseline[k].variable = var.name}}} = {"web1"}


----------------------------------------------------------------------------
(* Properties of the handler plans and of the generated behavioral tests *)

DeclaredHandlers == OptList(spec.handler_contracts)

\* C12: the contract plan of every phase carries every handler contract, in
\* declaration order, with its selector resolved to hosts and with, for each of the
\* three phases, the expected_runs the contract declares for that phase; the handler
\* test data generated for a phase expect the runs declared for that very phase.
HandlerExpansion ==
    /\ \A p \in DOMAIN plan.contracts :
          /\ Len(plan.contracts[p].handlers) = Len(DeclaredHandlers)
          /\ \A i \in DOMAIN DeclaredHandlers :
                LET hc == DeclaredHandlers[i]
                    h == plan.contracts[p].handlers[i]
                IN /\ h.handler_name = hc.handler_name
                   /\ h.host_targets = resolve_node_selector(hc.node_selector, spec.topology)
                   /\ h.expectations[p].phase = p
                   /\ h.expectations[p].expected_runs = hc.expected_runs[p]
    /\ ~IsNone(gen) =>
          /\ Len(Get(gen).handlers) = Len(DeclaredHandlers)
          /\ \A i \in DOMAIN DeclaredHandlers :
                LET hc == DeclaredHandlers[i]
                    t == Get(gen).handlers[i]
                IN /\ t.name = hc.handler_name
                   /\ t.hosts = resolve_node_selector(hc.node_selector, spec.topology)
                   /\ t.expected_runs = hc.expected_runs[Get(gen).phase]

\* the idempotence tests of a handler that declares a different expectation for
\* each phase, selected by group
HandlerExpansionWitness ==
    /\ ~IsNone(gen)
    /\ Get(gen).phase = "idempotence"
    /\ Len(DeclaredHandlers) = 2
    /\ DeclaredHandlers[1].expected_runs =
           [baseline |-> "at_least_once", mutation |-> "exactly_once", idempotence |-> "zero"]
    /\ Get(gen).handlers[1].expected_runs = "zero"
    /\ Get(gen).handlers[1].hosts = <<"app1">>
    /\ plan.contracts.mutation.handlers[1].expectations.mutation.expected_runs = "exactly_once"


\* the value a declared port stands for in a phase
PortOfPhase(declared, phase) ==
    IF "var" \in DOMAIN declared
    THEN [int |-> plan.variables[phase].resolved[declared.var].value]
    ELSE declared

\* C13: in the firewall and reachability test data of a phase, a port declared as
\* an integer is that integer, a port declared as a reference to a variable is the
\* value the variable resolves to in that phase, and no emitted port is a reference.
PortResolution ==
    ~IsNone(gen) =>
        LET phase == Get(gen).phase
            contract == plan.contracts[phase]
        IN /\ Len(Get(gen).firewall) = Len(contract.firewall)
           /\ \A i \in DOMAIN contract.firewall :
                 /\ Len(Get(gen).firewall[i].ports) = Len(contract.firewall[i].ports)
                 /\ \A j \in DOMAIN contract.firewall[i].ports :
                       LET port == Get(gen).firewall[i].ports[j].port
                       IN /\ port = PortOfPhase(contract.firewall[i].ports[j].port, phase)
                          /\ DOMAIN port = {"int"}
           /\ Len(Get(gen).reachability) = Len(contract.reachability)
           /\ \A i \in DOMAIN contract.reachability :
                 LET port == Get(gen).reachability[i].port
                 IN /\ port = PortOfPhase(contract.reachability[i].port, phase)
                    /\ DOMAIN port = {"int"}

\* the mutation tests of a firewall contract that opens port 80 and the port
\* http_port, and of a reachability contract on the port http_port: the reference
\* has become the mutation value 9090, not the baseline value 8080
PortResolutionWitness ==
    /\ ~IsNone(gen)
    /\ Get(gen).phase = "mutation"
    /\ Len(Get(gen).firewall) = 1
    /\ Len(Get(gen).firewall[1].ports) = 2
    /\ plan.contracts.mutation.firewall[1].ports[2].port = [var |-> "http_port"]
    /\ Get(gen).firewall[1].ports[1].port = [int |-> 80]
    /\ Get(gen).firewall[1].ports[2].port = [int |-> 9090]
    /\ plan.contracts.mutation.reachability[1].port = [var |-> "http_port"]
    /\ Get(gen).reachability[1].port = [int |-> 9090]
    /\ plan.variables.baseline.resolved.http_port.value = 8080


\* the text s in which every placeholder of a variable resolved in a phase, in the
\* spelling "{{ name }}" or "{{name}}", stands replaced by the digits of the
\* variable's value, read in one pass from left to right
RECURSIVE Interpolated(_, _)
Interpolated(s, phase) ==
    LET resolved == plan.variables[phase].resolved
        spaced(n) == <<"{{", " ", n, " ", "}}">>
        unspaced(n) == <<"{{", n, "}}">>
        starts(t) == Len(s) >= Len(t) /\ SubSeq(s, 1, Len(t)) = t
        here == {n \in DOMAIN resolved : starts(spaced(n)) \/ starts(unspaced(n))}
    IN IF s = <<>> THEN <<>>
       ELSE IF here = {} THEN <<s[1]>> \o Interpolated(Tail(s), phase)
       ELSE LET n == CHOOSE n \in here : TRUE
                len == IF starts(spaced(n)) THEN 5 ELSE 3
            IN str(resolved[n].value) \o Interpolated(SubSeq(s, len + 1, Len(s)), phase)

\* C14, what the generators do: in the test data of a phase, the URL of every HTTP
\* endpoint check and of every external HTTP check is the declared URL with every
\* placeholder of a resolved variable, spaced or unspaced, replaced by the text of
\* the variable's value in that phase and all other text unchanged; the pattern of
\* an output check is the declared pattern, placeholders included.
PlaceholderInterpolation ==
    ~IsNone(gen) =>
        LET phase == Get(gen).phase
            contract == plan.contracts[phase]
            external == Get(gen).external_http
            from_the_host == SelectSeq(contract.external_http, LAMBDA ext : ext.from_host)
            from_nodes == SelectSeq(contract.external_http, LAMBDA ext : ~ext.from_host)
        IN /\ Len(Get(gen).http_endpoints) = Len(contract.http_endpoints)
           /\ \A i \in DOMAIN contract.http_endpoints :
                 Get(gen).http_endpoints[i].url =
                     Interpolated(contract.http_endpoints[i].url, phase)
           /\ Len(external.host_tests) = Len(from_the_host)
           /\ \A i \in DOMAIN from_the_host :
                 external.host_tests[i].url = Interpolated(from_the_host[i].url, phase)
           /\ Len(external.vm_tests) = Len(from_nodes)
           /\ \A i \in DOMAIN from_nodes :
                 external.vm_tests[i].url = Interpolated(from_nodes[i].url, phase)
           /\ Len(Get(gen).output) = Len(contract.output_checks)
           /\ \A i \in DOMAIN contract.output_checks :
                 Get(gen).output[i].pattern = contract.output_checks[i].pattern

\* the idempotence tests of an endpoint whose URL holds the placeholder in both
\* spellings, and of an output check whose pattern holds it: 9090 twice in the
\* URL, the pattern as declared
PlaceholderInterpolationWitness ==
    /\ ~IsNone(gen)
    /\ Get(gen).phase = "idempotence"
    /\ Len(Get(gen).http_endpoints) = 1
    /\ plan.contracts.idempotence.http_endpoints[1].url =
           <<"{{", "http_port", "}}", "=", "{{", " ", "http_port", " ", "}}">>
    /\ Get(gen).http_endpoints[1].url = <<"9", "0", "9", "0", "=", "9", "0", "9", "0">>
    /\ Len(Get(gen).external_http.vm_tests) = 1
    /\ Get(gen).external_http.vm_tests[1].url = Get(gen).http_endpoints[1].url
    /\ Len(Get(gen).output) = 1
    /\ Get(gen).output[1].pattern = <<"listening on ", "{{", " ", "http_port", " ", "}}">>

\* C14: in the test data of a phase, the pattern of every output check is the
\* declared pattern with every placeholder of a resolved variable replaced by the
\* text of the variable's value in that phase
OutputPatternInterpolated ==
    ~IsNone(gen) =>
        \A i \in DOMAIN Get(gen).output :
            Get(gen).output[i].pattern =
                Interpolated(plan.contracts[Get(gen).phase].output_checks[i].pattern,
                             Get(gen).phase)


----------------------------------------------------------------------------
(* Properties of the execution plan and of the pipeline's steps *)

\* the names of the steps of a plan: phase_kind, written as the pair
StepNames ==
    <<<<"baseline", "converge">>, <<"baseline", "snapshot">>, <<"baseline", "verify">>,
      <<"mutation", "converge">>, <<"mutation", "snapshot">>, <<"mutation", "verify">>,
      <<"idempotence", "converge">>, <<"idempotence", "snapshot">>,
      <<"idempotence", "verify">>>>

PlanShape ==
    /\ DOMAIN plan.variables = {"baseline", "mutation", "idempotence"}
    /\ DOMAIN plan.contracts = {"baseline", "mutation", "idempotence"}
    /\ \A p \in DOMAIN plan.contracts :
          plan.contracts[p].phase = p /\ plan.variables[p].phase = p
    /\ Len(plan.steps) = 9
    /\ \A i \in 1..9 :
          /\ plan.steps[i].name = StepNames[i]
          /\ plan.steps[i].phase = StepNames[i][1]
          /\ plan.steps[i].kind = StepNames[i][2]

\* C15: whatever list of phases the caller runs, the plan built for a grading has
\* variable and contract plans for exactly baseline, mutation and idempotence and
\* exactly the nine steps converge, snapshot, verify of baseline, then of mutation,
\* then of idempotence; and the plan never changes while the phases are run.
ExecutionPlanShape ==
    /\ [](step \notin {"idle", "call"} => PlanShape)
    /\ [][step \notin {"idle", "call"} => plan' = plan]_vars

\* a grading that ran the mutation phase only has ended, with the nine-step plan
ExecutionPlanShapeWitness ==
    /\ step = "done"
    /\ Get(phases) = <<"mutation">>
    /\ Len(plan.steps) = 9
    /\ plan.steps[4].name = <<"mutation", "converge">>
    /\ plan.steps[9].name = <<"idempotence", "verify">>


\* the failure policy configured for the phase being run, if any
PolicyOfPhase ==
    LET overlay == spec.phase_overlays[IF Get(cur).phase = "baseline"
                                       THEN "baseline" ELSE "mutation"]
    IN IF IsNone(overlay) THEN None ELSE Get(overlay).failure_policy

\* C16: the failure-policy step replaces the converge result only when a policy is
\* configured and satisfied, and then by a result with success = true in which the
\* seven counts, the per-host recap and the handler run counts are those of the
\* original; otherwise the converge result after the step is the one before it.
RecodingPreservesCounts ==
    [][(step = "policy" /\ step' = "reboot") =>
          LET before == Get(cur).converge_result
              after == Get(cur').converge_result
              satisfied == /\ ~IsNone(PolicyOfPhase)
                           /\ _check_failure_policy(before, Get(cur).converge_log,
                                                    Get(PolicyOfPhase))
          IN IF satisfied
             THEN /\ after.success
                  /\ \A f \in {"ok", "changed", "failed", "unreachable", "skipped",
                               "rescued", "ignored", "play_recap", "handlers_run"} :
                        after[f] = before[f]
             ELSE after = before]_vars

\* a converge that exited with failures the policy allows has been recoded: it now
\* counts as a success and still reports the failed task and the handler run
RecodingPreservesCountsWitness ==
    /\ step = "reboot"
    /\ Get(cur).failures_allowed = Some(TRUE)
    /\ env[gi].converge.kind = "exit"
    /\ env[gi].converge.returncode = 2
    /\ Get(cur).converge_result.success
    /\ Get(cur).converge_result.failed > 0
    /\ Get(cur).converge_result.handlers_run # <<>>
    /\ Get(cur).converge_result.play_recap # <<>>


\* the i-th phase run met a timeout, of its converge or of its tests
TimedOut(i) == env[i].converge.kind = "timeout" \/ env[i].tests.kind = "timeout"

\* C17: a converge that runs into its timeout yields a ConvergeResult with
\* success = false and an error message, a test run that runs into its timeout a
\* TestResult with an error counted, and a grading in which the last run of some
\* phase met a timeout ends with a report that is not successful.
TimeoutsAreFailures ==
    /\ (step = "policy" /\ env[gi].converge.kind = "timeout") =>
          /\ ~Get(cur).converge_result.success
          /\ ~IsNone(Get(cur).converge_result.error_message)
    /\ (step = "score" /\ env[gi].tests.kind = "timeout") =>
          Get(Get(cur).test_result).errors >= 1
    /\ step = "done" =>
          \A i \in DOMAIN runs :
              (TimedOut(i) /\ runs[i] = LastRun(Get(phases)[i])) => ~Get(report).success


\* C17, what the pipeline does: the results of a timed-out converge and of a
\* timed-out test run are as stated, every requested phase is run to its end and
\* recorded whatever timed out, and the report of a grading in which the last run
\* of some phase met a timeout is not successful unless the timeout was that of
\* the converge and the phase's failure policy allowed the result.
TimeoutResults ==
    /\ (step = "policy" /\ env[gi].converge.kind = "timeout") =>
          /\ ~Get(cur).converge_result.success
          /\ ~IsNone(Get(cur).converge_result.error_message)
    /\ (step = "score" /\ env[gi].tests.kind = "timeout") =>
          Get(Get(cur).test_result).errors >= 1
    /\ step = "done" =>
          /\ Len(runs) = Len(Get(phases))
          /\ \A i \in DOMAIN runs :
                (TimedOut(i) /\ runs[i] = LastRun(Get(phases)[i])) =>
                    \/ ~Get(report).success
                    \/ /\ env[i].converge.kind = "timeout"
                       /\ env[i].tests.kind # "timeout"
                       /\ runs[i].converge.success

\* the converge of the only phase ran into its timeout, the phase's failure policy
\* allowed the result, and the grading ended with a successful report
TimeoutResultsWitness ==
    /\ step = "done"
    /\ Len(runs) = 1
    /\ env[1].converge.kind = "timeout"
    /\ runs[1].converge.success
    /\ Get(report).success


\* the result of node n is the failure of the second wait
TimedOutWaiting(r, n) ==
    /\ ~r.results[n].success
    /\ Get(r.results[n].error).text = TimeoutText

\* C19: the second wait is entered only after the node was seen unreachable and
\* while the elapsed time is below the timeout; between two of its probes lie the
\* probe and one poll interval; it returns success at the first probe that reaches
\* the node, and the "SSH did not become available within <timeout>s" failure only
\* when no probe reached the node and the elapsed time has reached the timeout.
SecondWait ==
    /\ [](~IsNone(rb) =>
            LET r == Get(rb)
            IN /\ r.at = "up" => r.seen.down /\ ~r.seen.up /\ r.clock < r.timeout
               /\ \A n \in DOMAIN r.results :
                    /\ r.results[n].success =>
                          /\ r.observed[n].down /\ r.observed[n].up
                          /\ r.results[n].error = None
                    /\ TimedOutWaiting(r, n) =>
                          /\ r.observed[n].down /\ ~r.observed[n].up
                          /\ Get(r.results[n].error).timeout = r.timeout
                          /\ r.results[n].duration = r.timeout)
    /\ [][LET r == Get(rb)
              q == Get(rb')
          IN r.at = "up" =>
               /\ q.seen.up_probes = r.seen.up_probes + 1 =>
                     /\ ~q.seen.up
                     /\ q.clock \in {r.clock + r.poll_interval, r.clock + 10 + r.poll_interval}
                     /\ q.at = "up"
               /\ q.i = r.i + 1 =>
                     /\ q.results[r.nodes[r.i]].success = q.observed[r.nodes[r.i]].up
                     /\ q.results[r.nodes[r.i]].success => q.results[r.nodes[r.i]].duration = r.clock
                     /\ ~q.results[r.nodes[r.i]].success =>
                           /\ TimedOutWaiting(q, r.nodes[r.i])
                           /\ q.clock >= r.timeout]_vars

\* a node came back at the third probe of the second wait
SecondWaitWitness ==
    /\ ~IsNone(rb)
    /\ Get(rb).at = "done"
    /\ Get(rb).nodes = <<"web1">>
    /\ Get(rb).results["web1"].success
    /\ Get(rb).observed["web1"].up_probes = 3

\* a node that went down and did not come back before the timeout
SecondWaitTimeoutWitness ==
    /\ ~IsNone(rb)
    /\ Get(rb).at = "done"
    /\ Get(rb).nodes = <<"web1">>
    /\ TimedOutWaiting(Get(rb), "web1")
    /\ Get(rb).observed["web1"].up_probes > 1


\* C20: every reboot_nodes call ends, whatever the probes answer, with a result
\* for each requested node and for no other; on the way the first wait makes at
\* most 30 probes, the second wait probes only while the elapsed time is below
\* the timeout, and each node's result, failed or not, is followed by the next
\* node.
RebootTerminates ==
    /\ <>[](/\ Get(rb).at = "done"
            /\ DOMAIN Get(rb).results = Range(Get(rb).nodes))
    /\ [](/\ Get(rb).seen.down_probes <= DownProbes
          /\ Get(rb).at = "up" => Get(rb).clock < Get(rb).timeout
          /\ Get(rb).at = "done" <=> Get(rb).i = Len(Get(rb).nodes) + 1
          /\ DOMAIN Get(rb).results = {Get(rb).nodes[k] : k \in 1 .. Get(rb).i - 1})
    /\ [][/\ Get(rb').i \in {Get(rb).i, Get(rb).i + 1}
          /\ Get(rb').i = Get(rb).i + 1 =>
                Get(rb').at = IF Get(rb).i = Len(Get(rb).nodes) THEN "done" ELSE "send"]_vars

\* the first node's reboot failed and the second node was rebooted all the same
RebootTerminatesWitness ==
    /\ ~IsNone(rb)
    /\ Get(rb).at = "done"
    /\ Get(rb).nodes = <<"web1", "app1">>
    /\ ~Get(rb).results["web1"].success
    /\ Get(rb).results["app1"].success


\* the exit status of the grade command
ExitStatus ==
    IF step = "raised" THEN 1
    ELSE IF step = "done" /\ Get(report).success THEN 0
    ELSE 1

\* C21: when a step of a phase raised, report.json is in the results directory
\* with the results of the phases completed before.
PartialReportWritten ==
    step = "raised" => <<"report.json">> \in fs.results

\* C21, what grade does: report.json and summary.txt are written by the last
\* statement of grade_assignment and at no other point, so they exist exactly
\* when every phase ran to its end; after a fault the results directory holds
\* the logs of the steps that completed, the results of the completed phases are
\* in the GradeReport in memory only, and the exit status is 1.
ReportWrittenAtEndOnly ==
    /\ <<"report.json">> \in fs.results <=> step = "done"
    /\ <<"summary.txt">> \in fs.results <=> step = "done"
    /\ step = "raised" =>
          /\ ExitStatus = 1
          /\ \A k \in 1 .. Len(runs) :
                 /\ runs[k].phase \in DOMAIN Get(report).phases
                 /\ {<<runs[k].phase, "converge.log">>, <<runs[k].phase, "test.log">>}
                        \subseteq fs.results

\* the mutation phase raised after the baseline phase had completed
ReportWrittenAtEndOnlyWitness ==
    /\ step = "raised"
    /\ Len(runs) = 1
    /\ runs[1].phase = "baseline"
    /\ Get(phases)[gi] = "mutation"
    /\ <<"baseline", "test_result.json">> \in fs.results
    /\ <<"report.json">> \notin fs.results


\* a Dict[str, Dict] with the same entries inserted in any other order
Reinserted(od) ==
    IF IsNone(od) THEN {od}
    ELSE {Some(q) : q \in {r \in SeqsNoDup(Range(Get(od)), Len(Get(od))) :
                               Len(r) = Len(Get(od))}}

\* the specification with the groups and hosts of its overlays inserted in any order
ReinsertedSpecs(s) ==
    LET reinserted(o) ==
            IF IsNone(o) THEN {o}
            ELSE {Some([Get(o) EXCEPT !.group_vars = g, !.host_vars = h]) :
                     g \in Reinserted(Get(o).group_vars),
                     h \in Reinserted(Get(o).host_vars)}
    IN {[s EXCEPT !.phase_overlays = [baseline |-> b, mutation |-> m]] :
           b \in reinserted(s.phase_overlays.baseline),
           m \in reinserted(s.phase_overlays.mutation)}

\* C22: for every phase of the plan, resolving the variables and expanding the
\* contracts again, on the same specification or on one whose overlay groups and
\* hosts were inserted in another order, gives the same value and source for
\* every variable and the same check lists, in content and in order.
Determinism ==
    \A p \in DOMAIN plan.variables :
        \A s \in ReinsertedSpecs(spec) :
            LET again == build_phase_variable_plan(s, p)
            IN /\ again.resolved = plan.variables[p].resolved
               /\ build_phase_contract_plan(s, s.topology, p, again) = plan.contracts[p]

\* two groups set the variable to different values and were inserted in
\* descending order of their names
DeterminismWitness ==
    /\ pc = PlanDone
    /\ ~IsNone(spec.phase_overlays.baseline)
    /\ ~IsNone(Get(spec.phase_overlays.baseline).group_vars)
    /\ LET gv == Get(Get(spec.phase_overlays.baseline).group_vars)
       IN /\ Len(gv) = 2
          /\ StrLT(gv[2].name, gv[1].name)
          /\ "http_port" \in DOMAIN gv[1].vars
          /\ "http_port" \in DOMAIN gv[2].vars
          /\ gv[1].vars.http_port # gv[2].vars.http_port
          /\ plan.variables.baseline.resolved.http_port.value = gv[1].vars.http_port
          /\ plan.variables.baseline.resolved.http_port.source = "group_vars"


\* C23: in every phase of the plan, a specification without variable contracts
\* has an empty resolved map and no binding checks; without behavioral
\* contracts, or without contracts in a category, the check list of each such
\* category is empty; without handler contracts there are no handler plans;
\* a phase whose overlay is absent has empty overlay maps and resolves every
\* variable to its default; build_execution_plan, on a specification with any
\* combination of its optional parts absent or empty, can always take its next
\* step, and the plan it returns has all three phases.
AbsentOptionalData ==
    /\ \A p \in DOMAIN plan.contracts :
          /\ OptList(spec.variable_contracts) = <<>> =>
                /\ DOMAIN plan.variables[p].resolved = {}
                /\ plan.contracts[p].bindings = <<>>
          /\ \A cat \in Range(Categories) :
                (\/ IsNone(spec.behavioral_contracts)
                 \/ OptList(Get(spec.behavioral_contracts)[cat]) = <<>>)
                    => plan.contracts[p][cat] = <<>>
          /\ OptList(spec.handler_contracts) = <<>> => plan.contracts[p].handlers = <<>>
          /\ IsNone(spec.phase_overlays[spec_phase_name(p)]) =>
                /\ DOMAIN plan.variables[p].inventory_vars = {}
                /\ plan.variables[p].group_vars = <<>>
                /\ plan.variables[p].host_vars = <<>>
                /\ DOMAIN plan.variables[p].extra_vars = {}
                /\ \A v \in DOMAIN plan.variables[p].resolved :
                       plan.variables[p].resolved[v].source = "default"
    /\ (spec \in SparseSpecs /\ pc < PlanDone) => ENABLED (BuildPhase \/ AppendSteps)
    /\ pc = PlanDone => DOMAIN plan.contracts = Range(PhaseNames)

\* the plan of a specification with variable contracts and a baseline overlay
\* but no mutation overlay, no behavioral and no handler contracts
AbsentOptionalDataWitness ==
    /\ pc = PlanDone
    /\ OptList(spec.variable_contracts) # <<>>
    /\ ~IsNone(spec.phase_overlays.baseline)
    /\ ~IsNone(Get(spec.phase_overlays.baseline).group_vars)
    /\ IsNone(spec.phase_overlays.mutation)
    /\ IsNone(spec.behavioral_contracts)
    /\ IsNone(spec.handler_contracts)
    /\ plan.variables.idempotence.group_vars = <<>>
    /\ plan.contracts.mutation.bindings # <<>>
    /\ plan.contracts.mutation.packages = <<>>
    /\ Len(plan.steps) = 9

----------------------------------------------------------------------------
(* C24: the order of the pipeline *)

\* the phase's overlay enables a reboot
RebootEnabledIn(phase) ==
    LET name == IF phase = "idempotence" THEN "mutation" ELSE phase
        overlay == spec.phase_overlays[name]
    IN /\ ~IsNone(overlay)
       /\ ~IsNone(Get(overlay).reboot)
       /\ Get(Get(overlay).reboot).enabled

\* the external calls of one phase, up to the step the pipeline stands at
CallsOfPhase(phase, at) ==
    LET all == <<"converge">>
               \o (IF RebootEnabledIn(phase) THEN <<"reboot">> ELSE <<>>)
               \o <<"tests">>
        made == CASE at = "converge" -> 0
                  [] at \in {"policy", "reboot"} -> 1
                  [] at \in {"idempotence", "tests"} -> Len(all) - 1
                  [] OTHER -> Len(all)
    IN [k \in 1..made |-> [call |-> all[k], phase |-> phase]]

RECURSIVE CallsUpTo(_, _)
CallsUpTo(k, at) ==
    IF k = 0 THEN <<>>
    ELSE CallsUpTo(k - 1, "score") \o CallsOfPhase(Get(phases)[k], at)

\* the steps at which the current phase has not returned
InPhase == {"converge", "policy", "reboot", "idempotence", "tests", "score"}

\* C24: the external calls made so far are, for the requested phases in their
\* order, the converge, the reboot when the phase's overlay enables one and no
\* other, and the tests, one phase after the other and whatever the converge or
\* the reboot gave; the failure policy is evaluated after the converge and
\* before the reboot, and a phase's score is computed after its tests and before
\* the next phase's converge.
PipelineOrder ==
    step \notin {"call", "raised"} =>
        LET ps == Get(phases)
            done == IF step \in InPhase THEN gi - 1 ELSE Len(ps)
        IN /\ [k \in DOMAIN fs.calls |->
                   [call |-> fs.calls[k].call, phase |-> fs.calls[k].phase]]
                 = (IF step \in InPhase THEN CallsUpTo(gi, step) ELSE CallsUpTo(Len(ps), "score"))
           /\ Len(runs) = done
           /\ \A k \in 1..done : runs[k].phase = ps[k]
           /\ step \in InPhase \ {"converge"} => Get(cur).phase = ps[gi]
           /\ step = "policy" => Get(cur).failures_allowed = None /\ Get(cur).reboot_results = None
           /\ step \in {"reboot", "idempotence", "tests", "score"} =>
                 (Get(cur).failures_allowed # None
                    <=> (~IsNone(PhaseOverlayOf(spec, ps[gi]))
                         /\ ~IsNone(Get(PhaseOverlayOf(spec, ps[gi])).failure_policy)))
           /\ step \in {"converge", "policy", "reboot", "idempotence", "tests"} =>
                 (step = "converge" \/ Get(cur).test_result = None)
           /\ step = "score" => Get(cur).test_result # None

\* a run of several phases is over; a phase whose converge failed and whose
\* reboot failed had its tests run, and the phase after it ran too
PipelineOrderWitness ==
    /\ step = "done"
    /\ Len(runs) = 3
    /\ ~runs[2].converge.success
    /\ <<"mutation", "reboot_failure.txt">> \in fs.results
    /\ \E k \in DOMAIN fs.calls :
          /\ k < Len(fs.calls)
          /\ fs.calls[k].call = "tests"
          /\ fs.calls[k].phase = "mutation"
          /\ fs.calls[k + 1].call = "converge"
    /\ runs[2].tests.failed > 0

----------------------------------------------------------------------------
(* C25: the decision of the failure policy *)

\* every failure message of the converge log matches one of the patterns
AllMatched(patterns) ==
    \A m \in DOMAIN Get(cur).converge_log.failures :
        \E k \in DOMAIN patterns : Get(cur).converge_log.failures[m] \in patterns[k]

\* the failed count is within the policy's maximum, if it has one
WithinMaximum(policy) ==
    IsNone(policy.max_failures) \/ Get(cur).converge_result.failed <= Get(policy.max_failures)

\* the policy has been evaluated
PolicyEvaluated == step = "reboot" /\ ~IsNone(Get(cur).failures_allowed)

\* C25, as stated: the failures are allowed only if allow_failures is true, the
\* failed count does not exceed max_failures when that is set, and every failure
\* message of the log matches an expected pattern when expected_patterns is set.
FailurePolicyAsStated ==
    (PolicyEvaluated /\ Get(Get(cur).failures_allowed)) =>
        LET policy == Get(PolicyOfPhase)
        IN /\ policy.allow_failures
           /\ WithinMaximum(policy)
           /\ ~IsNone(policy.expected_patterns) => AllMatched(Get(policy.expected_patterns))

\* C25, what _check_failure_policy decides: the failures are allowed exactly when
\* allow_failures is true, the failed count does not exceed max_failures when
\* that is set, and every failure message of the log matches an expected pattern
\* when expected_patterns is a list that is not empty; an empty list of patterns
\* restricts nothing.
FailurePolicyDecision ==
    PolicyEvaluated =>
        LET policy == Get(PolicyOfPhase)
            patterns == policy.expected_patterns
        IN /\ Get(Get(cur).failures_allowed)
                <=> /\ policy.allow_failures
                    /\ WithinMaximum(policy)
                    /\ (~IsNone(patterns) /\ Get(patterns) # <<>>) => AllMatched(Get(patterns))
           /\ ~policy.allow_failures => ~Get(Get(cur).failures_allowed)
           /\ (~IsNone(patterns) /\ Get(patterns) # <<>> /\ ~AllMatched(Get(patterns)))
                 => ~Get(Get(cur).failures_allowed)
           /\ ~WithinMaximum(policy) => ~Get(Get(cur).failures_allowed)

\* a policy with two patterns and a maximum allowed a converge whose failure
\* messages were all matched and whose failed count was at the maximum
FailurePolicyDecisionWitness ==
    /\ PolicyEvaluated
    /\ Get(Get(cur).failures_allowed)
    /\ Get(PolicyOfPhase).max_failures = Some(Get(cur).converge_result.failed)
    /\ Get(cur).converge_result.failed > 0
    /\ ~IsNone(Get(PolicyOfPhase).expected_patterns)
    /\ Len(Get(Get(PolicyOfPhase).expected_patterns)) = 2
    /\ Len(Get(cur).converge_log.failures) >= 2

\* one failure message out of several was not matched, and the policy denied
FailurePolicyDeniedWitness ==
    /\ PolicyEvaluated
    /\ ~Get(Get(cur).failures_allowed)
    /\ Get(PolicyOfPhase).allow_failures
    /\ WithinMaximum(Get(PolicyOfPhase))
    /\ Get(PolicyOfPhase).expected_patterns = Some(<<{"fatal_expected"}>>)
    /\ Len(Get(cur).converge_log.failures) >= 2
    /\ Get(cur).converge_log.failures[1] = "fatal_expected"

----------------------------------------------------------------------------
(* C26: the idempotence phase runs on the mutation's inputs *)

\* the mutation overlay of the specification, without data if there is none
MutationOverlay ==
    IF IsNone(spec.phase_overlays.mutation) THEN NoOverlayData
    ELSE Get(spec.phase_overlays.mutation)

\* the calls made so far for the phase being run
CallsOfCurrent(kind) ==
    {k \in DOMAIN fs.calls :
        /\ fs.calls[k].call = kind
        /\ fs.calls[k].phase = Get(cur).phase
        /\ \A j \in (k + 1)..Len(fs.calls) : fs.calls[j].call # "converge"}

\* the idempotence phase is being run and its converge is over
IdempotenceRunning ==
    /\ step \in {"policy", "reboot", "idempotence", "tests", "score"}
    /\ Get(cur).phase = "idempotence"

IdempotenceIgnoresBaselinePolicyWitness ==
    /\ IdempotenceRunning
    /\ step = "reboot"
    /\ ~IsNone(spec.phase_overlays.baseline)
    /\ ~IsNone(Get(spec.phase_overlays.baseline).failure_policy)
    /\ IsNone(MutationOverlay.failure_policy)
    /\ IsNone(Get(cur).failures_allowed)

----------------------------------------------------------------------------
(* C27: the idempotence verdict and the grades *)

\* the PhaseResult of one phase run, from the converge run and the test run
PhaseResultOf(s, phase, run) ==
    LET played == run_playbook(run.converge)
        overlay == s.phase_overlays[IF phase = "baseline" THEN "baseline" ELSE "mutation"]
        policy == IF IsNone(overlay) THEN None ELSE Get(overlay).failure_policy
        allowed == /\ ~IsNone(policy)
                   /\ _check_failure_policy(played.result, played.log, Get(policy))
        tests == run_phase_tests(run.tests)
        scored == calculate_phase_score(tests)
    IN [phase |-> phase,
        converge |-> IF allowed THEN AllowedResult(played.result) ELSE played.result,
        tests |-> tests, score |-> scored.earned, max_score |-> scored.max]

\* the GradeReport of a grading, from the converge runs and the test runs
ReportOf(s, ps, e) ==
    LET last(p) == CHOOSE i \in DOMAIN ps :
                      ps[i] = p /\ \A j \in DOMAIN ps : ps[j] = p => j <= i
        phs == [p \in Range(ps) |-> PhaseResultOf(s, p, e[last(p)])]
        total == calculate_total_score(phs)
    IN [phases |-> phs, total_score |-> total.earned, max_score |-> total.max,
        percentage |-> total.percentage, success |-> report_success(phs)]

\* the runs e, with n tasks changed on the first host in the converge of the
\* idempotence phase
WithChanged(ps, e, n) ==
    [i \in DOMAIN e |->
        IF ps[i] = "idempotence" /\ e[i].converge.kind = "exit"
                                /\ e[i].converge.stdout.recap # <<>>
        THEN [e[i] EXCEPT !.converge.stdout.recap[1].changed = n]
        ELSE e[i]]

\* C27: the report of a finished grading is the one computed from the converge
\* results and the test results alone, without the verdict of check_idempotence;
\* and had the converge of the idempotence phase, successful in both cases,
\* reported any other number of changed tasks, the idempotence phase's score and
\* max_score and the report's total score, maximum, percentage and success flag
\* would be the same.
VerdictWithoutInfluence ==
    \* the report as grade_assignment returns it
    (step = "done" /\ IsNone(score_call)) =>
        LET ps == Get(phases)
            r == ReportOf(spec, ps, env)
        IN /\ Get(report) = r
           /\ "idempotence" \in Range(ps) =>
                 \A n \in 0..MaxCount :
                    LET q == ReportOf(spec, ps, WithChanged(ps, env, n))
                    IN (r.phases["idempotence"].converge.success
                          /\ q.phases["idempotence"].converge.success) =>
                         /\ q.phases["idempotence"].score = r.phases["idempotence"].score
                         /\ q.phases["idempotence"].max_score
                               = r.phases["idempotence"].max_score
                         /\ q.total_score = r.total_score
                         /\ q.max_score = r.max_score
                         /\ q.percentage = r.percentage
                         /\ q.success = r.success

\* a grading is over whose idempotence converge succeeded and changed tasks: the
\* verdict was "not idempotent", the phase has its full score and the report is
\* successful, as it is for the same grading with nothing changed
VerdictWithoutInfluenceWitness ==
    /\ step = "done"
    /\ "idempotence" \in DOMAIN Get(report).phases
    /\ Get(report).phases["idempotence"].converge.success
    /\ Get(report).phases["idempotence"].converge.changed > 0
    /\ ~check_idempotence(Get(report).phases["idempotence"].converge).idempotent
    /\ Get(report).phases["idempotence"].score = Get(report).phases["idempotence"].max_score
    /\ Get(report).phases["idempotence"].max_score > 0
    /\ Get(report).success
    /\ ReportOf(spec, Get(phases), WithChanged(Get(phases), env, 0)).phases["idempotence"].converge.changed = 0
    /\ ReportOf(spec, Get(phases), WithChanged(Get(phases), env, 0)).success

----------------------------------------------------------------------------
(* C28: the overlays of the plan and what the converge is given *)

\* the converge of the phase being run has been called
ConvergeCalled ==
    /\ step \in {"policy", "reboot", "idempotence", "tests", "score"}
    /\ CallsOfCurrent("converge") # {}

\* the call of that converge
ConvergeCall == fs.calls[CHOOSE k \in CallsOfCurrent("converge") : TRUE]

\* the call gives the playbook the variable with this value in this layer
GivenIn(c, name, layer, value) ==
    CASE layer = "inventory_vars" ->
            name \in DOMAIN c.inventory_vars /\ c.inventory_vars[name] = value
      [] layer = "group_vars" ->
            \E g \in DOMAIN c.group_vars :
                name \in DOMAIN c.group_vars[g] /\ c.group_vars[g][name] = value
      [] layer = "host_vars" ->
            \E h \in DOMAIN c.host_vars :
                name \in DOMAIN c.host_vars[h] /\ c.host_vars[h][name] = value
      [] layer = "extra_vars" ->
            name \in DOMAIN c.extra_vars /\ c.extra_vars[name] = value
      [] OTHER -> TRUE

\* C28, as stated: every variable the plan resolved for the phase from an overlay
\* layer is given to the phase's converge with that value in that layer.
OverlaysReachConverge ==
    ConvergeCalled =>
        LET resolved == plan.variables[Get(cur).phase].resolved
        IN \A n \in DOMAIN resolved :
              GivenIn(ConvergeCall, n, resolved[n].source, resolved[n].value)

\* C28, what the pipeline does: a variable the plan resolved from group_vars or
\* from extra_vars is given to the converge with that value in that layer; the
\* inventory carries no variable of an overlay and the host_vars are the
\* connection settings the builder wrote, so a variable the plan resolved from
\* inventory_vars or from host_vars is not given to the converge.
OverlaysGivenToConverge ==
    ConvergeCalled =>
        LET resolved == plan.variables[Get(cur).phase].resolved
            c == ConvergeCall
        IN /\ \A n \in DOMAIN resolved :
                 /\ resolved[n].source \in {"group_vars", "extra_vars"} =>
                       GivenIn(c, n, resolved[n].source, resolved[n].value)
                 /\ resolved[n].source \in {"inventory_vars", "host_vars"} =>
                       ~GivenIn(c, n, resolved[n].source, resolved[n].value)
           /\ c.inventory_vars = EmptyDict
           /\ \A h \in DOMAIN c.host_vars :
                 DOMAIN c.host_vars[h] = {"ansible_host", "ansible_user"}

\* the mutation's converge of a specification whose baseline set the variable
\* in group_vars and whose mutation sets it in extra_vars was given both files
OverlaysGivenToConvergeWitness ==
    /\ ConvergeCalled
    /\ Get(cur).phase = "mutation"
    /\ gi = 2
    /\ plan.variables["baseline"].resolved["http_port"].source = "group_vars"
    /\ plan.variables["mutation"].resolved["http_port"].source = "extra_vars"
    /\ ConvergeCall.extra_vars = [http_port |-> 9090]
    /\ "web" \in DOMAIN ConvergeCall.group_vars

----------------------------------------------------------------------------
(* C29: group_vars files of earlier phases *)

\* the group_vars files of the overlay a phase reads: one file for every group
\* with variables, all.yml without content when the overlay has no group_vars
OverlayGroupFiles(phase) ==
    LET overlay == spec.phase_overlays[IF phase = "baseline" THEN "baseline" ELSE "mutation"]
        groups == IF IsNone(overlay) THEN <<>> ELSE OptList(Get(overlay).group_vars)
    IN IF groups = <<>> THEN "all" :> EmptyDict
       ELSE [n \in {g \in Keys(groups) : Lookup(groups, g) # EmptyDict} |-> Lookup(groups, n)]

\* C29, as stated: the group_vars files with variables that a phase's converge
\* sees are exactly those of the phase's overlay.
NoStaleGroupVars ==
    ConvergeCalled =>
        LET seen == ConvergeCall.group_vars
            own == OverlayGroupFiles(Get(cur).phase)
        IN \A f \in DOMAIN seen \cup DOMAIN own :
              \/ f \in DOMAIN seen /\ f \in DOMAIN own /\ seen[f] = own[f]
              \/ f \in DOMAIN seen /\ f \notin DOMAIN own /\ seen[f] = EmptyDict

\* C29, what the pipeline does: the converge sees every file of its phase's
\* overlay with the overlay's content, and every other file with the content the
\* latest earlier phase of the grading that has the file installed; no file is
\* ever removed.
GroupVarsAccumulate ==
    ConvergeCalled =>
        LET seen == ConvergeCall.group_vars
            ps == Get(phases)
            having(f) == {j \in 1..gi : f \in DOMAIN OverlayGroupFiles(ps[j])}
        IN /\ DOMAIN seen = {"all"} \cup UNION {DOMAIN OverlayGroupFiles(ps[j]) : j \in 1..gi}
           /\ \A f \in DOMAIN seen :
                 IF having(f) = {} THEN seen[f] = EmptyDict
                 ELSE LET j == CHOOSE i \in having(f) : \A k \in having(f) : k <= i
                      IN seen[f] = OverlayGroupFiles(ps[j])[f]

\* the mutation's converge, after the baseline of a specification whose baseline
\* overlay sets a variable for the group web and whose mutation overlay has no
\* group_vars, still sees the baseline's web.yml
GroupVarsAccumulateWitness ==
    /\ ConvergeCalled
    /\ gi = 2
    /\ Get(phases)[1] = "baseline"
    /\ Get(cur).phase = "mutation"
    /\ "web" \notin DOMAIN OverlayGroupFiles("mutation")
    /\ "web" \in DOMAIN ConvergeCall.group_vars
    /\ ConvergeCall.group_vars["web"] = [http_port |-> 8080]
    /\ plan.variables["mutation"].resolved["http_port"].value # 8080

----------------------------------------------------------------------------
(* C30: the names of the generated binding tests *)

\* the binding tests generated for a phase
TestsOf(phase) == bind_tests[phase]

\* C30, as stated: within one phase two different binding tests have different
\* test names.
BindingTestNamesUnique ==
    \A phase \in DOMAIN bind_tests :
        \A i \in DOMAIN TestsOf(phase) : \A j \in DOMAIN TestsOf(phase) :
            i # j => TestsOf(phase)[i].test_name # TestsOf(phase)[j].test_name

\* C30, what generate_binding_tests does: every binding check of the phase's plan
\* yields one test per host; a test name is not empty, consists of lower-case
\* letters, digits and "_", and begins and ends with none of "_"; and the name
\* is made of the variable, the binding type and the host alone, so that two
\* tests of one variable, one binding type and one host bear the same name
\* whatever their targets.
BindingTestNames ==
    \* the list generate_tests has just added; no later step touches it
    \A phase \in (IF pc \in (PlanDone + 1)..TestsDone /\ IsNone(sel) /\ IsNone(gen)
                  THEN {PhaseNames[pc - PlanDone]} ELSE {}) :
        LET tests == TestsOf(phase)
            bindings == plan.contracts[phase].bindings
        IN /\ OptList(spec.variable_contracts) # <<>> =>
                 Len(tests) = SumSeq([b \in DOMAIN bindings |->
                                         Len(_get_hosts_for_binding(spec, bindings[b]))])
           /\ \A i \in DOMAIN tests :
                 LET name == tests[i].test_name
                 IN /\ name # ""
                    /\ \A k \in 1..Len(name) :
                          SubSeq(name, k, k) \in {LowerOf[c] : c \in DOMAIN LowerOf}
                                                  \cup Digits \cup {"_"}
                    /\ SubSeq(name, 1, 1) \notin Digits \cup {"_"}
                    /\ SubSeq(name, Len(name), Len(name)) # "_"
                    /\ \A k \in 1..(Len(name) - 1) : SubSeq(name, k, k + 1) # "__"
           /\ \A i \in DOMAIN tests : \A j \in DOMAIN tests :
                 (/\ tests[i].variable = tests[j].variable
                  /\ tests[i].binding_type = tests[j].binding_type
                  /\ tests[i].host = tests[j].host)
                     => tests[i].test_name = tests[j].test_name

\* two bindings of one variable and one type with different targets, on a node
\* whose name ends with "-": two tests of one phase named
\* http_port_service_listen_port_web
BindingTestNamesWitness ==
    /\ "baseline" \in DOMAIN bind_tests
    /\ Len(TestsOf("baseline")) = 2
    /\ Len(plan.contracts["baseline"].bindings) = 2
    /\ plan.contracts["baseline"].bindings[1].binding_target
          # plan.contracts["baseline"].bindings[2].binding_target
    /\ TestsOf("baseline")[1].host = "web-"
    /\ TestsOf("baseline")[1].test_name = "http_port_service_listen_port_web"
    /\ TestsOf("baseline")[2].test_name = "http_port_service_listen_port_web"

\* two variables whose names differ in case and in their separators: both
\* tests of the phase are named http_port_service_listen_port_web1
BindingTestNamesFoldedWitness ==
    /\ "baseline" \in DOMAIN bind_tests
    /\ Len(TestsOf("baseline")) = 2
    /\ TestsOf("baseline")[1].variable = "http_port"
    /\ TestsOf("baseline")[2].variable = "HTTP--Port"
    /\ TestsOf("baseline")[1].test_name = "http_port_service_listen_port_web1"
    /\ TestsOf("baseline")[2].test_name = "http_port_service_listen_port_web1"

====
